---- MODULE Spec2Model ----
(***************************************************************************)
(* BTC short strangle daily observer (15StrikesFarOTMPicker.py).           *)
(*                                                                         *)
(* Specification Spec is one run of the script with PHASE = 'EXIT': the    *)
(* snapshot load and stale check, the intraday candle check (STEP 1), the  *)
(* safety fallback (live quotes, settlement spot), the 5:15 PM price fetch *)
(* with its retry and zero-value guard (STEP 2), the P&L, the tracker row  *)
(* and the cleanup.                                                        *)
(*                                                                         *)
(* Units: every amount of money is a whole number of US cents (the script  *)
(* prints and rounds to 2 decimals); P&L in INR is in cents x rate.        *)
(* A time of day 'HH:MM' is the pair <<HH, MM>>; a candle timestamp is the *)
(* number of seconds since IST midnight of the evaluation day.             *)
(* Python's None is the empty tuple, any other value x is <<x>>.           *)
(***************************************************************************)
EXTENDS Integers, Sequences, FiniteSets, TLC

VARIABLES
    pc,                \* position of the script in the EXIT phase
    DRY_RUN,           \* module constant read from the environment
    today_str,         \* now_ist.strftime('%d-%m-%Y') as <<dd, mm, yyyy>>
    now_ist,           \* time of day the script started, <<HH, MM>>
    active_trade,      \* content of active_trade.json, None when absent
    tracker,           \* rows of trade_tracker.xlsx, oldest first
    entry,             \* the snapshot as loaded by json.load
    call_candles,      \* get_intraday_worst_combined: local call_candles
    put_candles,       \* get_intraday_worst_combined: local put_candles
    intraday,          \* result of get_intraday_worst_combined
    sl_breached,
    hard_cap_breached,
    exit_combined,
    exit_ce,
    exit_pe,
    exit_time_str,
    exit_reason,
    cd_now,            \* safety fallback: live quote of the call
    pd_now,            \* safety fallback: live quote of the put
    current_spot,      \* safety fallback: get_btc_spot()
    cd,                \* STEP 2: live quote of the call
    pd,                \* STEP 2: live quote of the put
    settlement_spot,   \* zero-value guard: get_btc_spot()
    fetches,           \* requests issued so far, in order
    log,               \* [WARNING] lines written so far
    market_asks,       \* the best asks the ticker endpoint can answer in this run
    call_resp,         \* peak finder alone: response to the call candle request
    put_resp,          \* peak finder alone: response to the put candle request
    close_ret,         \* close_position alone: the last call and its return
    env_dry_run,       \* os.environ.get('DRY_RUN'), a string of characters
    thresholds,        \* threshold tests alone: a snapshot, a premium, the verdicts
    is_saturday,       \* now_ist.weekday() == 5
    usd_inr,           \* get_usd_inr() at the start of an ENTRY run
    spot_price,        \* ENTRY: BTC spot fetched, None before the fetch
    chain,             \* ENTRY: the option chain fetched, None before the fetch
    all_strikes,       \* ENTRY: the strikes of the chain in order, <<>> before
    atm_index,         \* ENTRY: position of the ATM strike, from 1; 0 before
    best_combo,        \* ENTRY: the strike pair selected, None when none
    scan_log,          \* ENTRY: one line per candidate pair the scans evaluated
    run_end,           \* how the run ended: None while running
    positions,         \* the exchange: size held per product_id
    orders,            \* the exchange: orders accepted, in order
    tick,              \* monitor_live: what the last poll was answered
    exit_data          \* monitor_live: its result, None before it returns

vars == <<pc, DRY_RUN, today_str, now_ist, active_trade, tracker, entry,
          call_candles, put_candles, intraday, sl_breached, hard_cap_breached,
          exit_combined, exit_ce, exit_pe, exit_time_str, exit_reason,
          cd_now, pd_now, current_spot, cd, pd, settlement_spot, fetches, log,
          market_asks, call_resp, put_resp, close_ret, env_dry_run, thresholds,
          is_saturday, usd_inr, spot_price, chain, all_strikes, atm_index, best_combo, scan_log, run_end,
          positions, orders, tick, exit_data>>

None == <<>>
Some(x) == <<x>>

-----------------------------------------------------------------------------
(* Configuration                                                           *)

POSITION_SIZE_LOTS == 1000
POSITION_SIZE_BTC == POSITION_SIZE_LOTS \div 1000
\* SL_COMBINED_MULTIPLIER = 2.5, in tenths
SL_COMBINED_MULTIPLIER_X10 == 25
HARD_MAX_LOSS_INR == 10000
\* EARLY_EXIT_PREMIUM = 5.0 USD, in cents
EARLY_EXIT_PREMIUM == 500
EXIT_HOUR == 17
EXIT_MINUTE == 15
MAX_SPREAD_PCT == 30
\* MIN_PREMIUM_USD = 5.0 USD, in cents
MIN_PREMIUM_USD == 500

-----------------------------------------------------------------------------
(* Bounds and input sets                                                   *)

\* most candles in one response of the candle endpoint
MaxCandles == 2

Dates == {<<6, 11, 2026>>, <<5, 11, 2026>>, <<6, 10, 2026>>}
Today == <<6, 11, 2026>>
NowTimes == {<<17, 15>>}
\* snapshot rates; 10000 INR / rate is a whole number of cents for both
UsdInrRates == {80, 100}
\* (entry_ce, entry_pe) in cents: $5 + $5 and $40 + $60
EntryPremiums == {<<500, 500>>, <<4000, 6000>>}
\* (call_strike, put_strike) in cents: $70,000 and $60,000
StrikePairs == {<<7000000, 6000000>>}
\* seconds since midnight: 14:02:00 and 15:00:00
CandleTimes == {50520, 54000}
CandleCloses == {0, 1500, 10500, 15000}
Asks == {0, 300, 1500, 10500, 15000}
\* between the strikes, $50 below the put strike, $210 above the call strike
SpotPrices == {6500000, 5995000, 7021000}

Snapshots ==
    {[date |-> d, entry_time |-> <<3, 30>>,
      call_strike |-> k[1], put_strike |-> k[2],
      entry_ce |-> p[1], entry_pe |-> p[2], entry_combined |-> p[1] + p[2],
      usd_to_inr |-> r] :
        d \in Dates, k \in StrikePairs, p \in EntryPremiums, r \in UsdInrRates}

Candles == [time : {None} \cup {Some(t) : t \in CandleTimes},
            close : {None} \cup {Some(c) : c \in CandleCloses}]

SeqUpTo(S, n) == UNION {[1..k -> S] : k \in 0..n}

\* what requests.get on /v2/history/candles can do: raise, answer with an
\* error status, or answer 200 with a (possibly empty) list of candles
CandleResponses ==
    {[raised |-> TRUE, status |-> 0, candles |-> <<>>],
     [raised |-> FALSE, status |-> 400, candles |-> <<>>]}
    \cup {[raised |-> FALSE, status |-> 200, candles |-> s] :
             s \in SeqUpTo(Candles, MaxCandles)}

\* what get_current_premium can return
QuoteResults ==
    {[success |-> FALSE, error |-> "HTTP"]}
    \cup {[success |-> TRUE, ask |-> a] : a \in market_asks}

\* what get_btc_spot can return
SpotResults == {None} \cup {Some(s) : s \in SpotPrices}

-----------------------------------------------------------------------------
(* The DRY_RUN environment variable                                        *)

\* str.lower() on the letters that occur
lower_char(c) ==
    CASE c = "F" -> "f" [] c = "A" -> "a" [] c = "L" -> "l"
      [] c = "S" -> "s" [] c = "E" -> "e" [] c = "T" -> "t"
      [] c = "R" -> "r" [] c = "U" -> "u" [] OTHER -> c
lower(str) == [i \in 1..Len(str) |-> lower_char(str[i])]

\* DRY_RUN read as false whenever the variable is set to anything but 'true'
dry_run_unless_true(env) ==
    lower(IF env = None THEN <<"t", "r", "u", "e">> ELSE env[1])
        = <<"t", "r", "u", "e">>

\* DRY_RUN = os.environ.get('DRY_RUN', 'true').lower() != 'false'
dry_run_of(env) ==
    lower(IF env = None THEN <<"t", "r", "u", "e">> ELSE env[1])
        # <<"f", "a", "l", "s", "e">>

\* a value of the variable that gives the setting: 'true' or 'false'
env_of(dry) ==
    IF dry THEN Some(<<"t", "r", "u", "e">>)
    ELSE Some(<<"f", "a", "l", "s", "e">>)

-----------------------------------------------------------------------------
(* Helpers                                                                 *)

Max(a, b) == IF a >= b THEN a ELSE b

\* round(n / d) to the nearest whole cent, ties to even, for n >= 0, d > 0
Round(n, d) ==
    LET q == n \div d
        r == n % d
    IN  IF 2 * r < d THEN q
        ELSE IF 2 * r > d THEN q + 1
        ELSE IF q % 2 = 0 THEN q ELSE q + 1

\* the time string '?'
UnknownTime == <<>>

\* datetime.fromtimestamp(ts, tz=IST).strftime('%H:%M')
strftime_HM(ts) == <<ts \div 3600, (ts % 3600) \div 60>>

RECURSIVE sorted(_)
sorted(S) ==
    IF S = {} THEN <<>>
    ELSE LET m == CHOOSE x \in S : \A y \in S : x <= y
         IN  <<m>> \o sorted(S \ {m})

-----------------------------------------------------------------------------
(* get_intraday_worst_combined                                             *)

Put(f, k, v) == [x \in DOMAIN f \cup {k} |-> IF x = k THEN v ELSE f[x]]

\* the loop that builds result = {int(ts): float(close or 0)}; a candle
\* without a time is skipped, a later candle of a minute replaces an earlier
RECURSIVE candle_dict(_, _)
candle_dict(candles, result) ==
    IF candles = <<>> THEN result
    ELSE LET c == Head(candles)
         IN  candle_dict(Tail(candles),
                 IF c.time # None
                 THEN Put(result, c.time[1],
                          IF c.close = None THEN 0 ELSE c.close[1])
                 ELSE result)

\* fetch_candles for a response that did not raise
fetch_candles(resp) ==
    IF resp.status # 200 THEN None
    ELSE IF resp.candles = <<>> THEN None
    ELSE Some(candle_dict(resp.candles, <<>>))

\* Python's `not d` for a value that is None or a dict
falsy(d) == d = None \/ DOMAIN d[1] = {}

\* a scan that keeps the first minute instead of the running maximum
worst_scan_first(common_ts, cc, pcd, w) ==
    IF common_ts = <<>> THEN w
    ELSE [worst_combined |-> cc[Head(common_ts)] + pcd[Head(common_ts)],
          worst_ts |-> Some(Head(common_ts))]

\* the scan for the running maximum; w is [combined, ts]
RECURSIVE worst_scan(_, _, _, _)
worst_scan(common_ts, cc, pcd, w) ==
    IF common_ts = <<>> THEN w
    ELSE LET ts == Head(common_ts)
             combined == cc[ts] + pcd[ts]
         IN  worst_scan(Tail(common_ts), cc, pcd,
                 IF combined > w.worst_combined
                 THEN [worst_combined |-> combined, worst_ts |-> Some(ts)]
                 ELSE w)

\* the part of get_intraday_worst_combined after the two fetches
intraday_result(cc, pcd, sl, cap) ==
    IF falsy(cc) \/ falsy(pcd) THEN None
    ELSE LET common_ts == sorted(DOMAIN cc[1] \cap DOMAIN pcd[1])
         IN  IF common_ts = <<>> THEN None
             ELSE LET w == worst_scan(common_ts, cc[1], pcd[1],
                               [worst_combined |-> 0, worst_ts |-> None])
                  IN  Some([worst_combined    |-> w.worst_combined,
                            worst_time        |-> IF w.worst_ts # None
                                                  THEN strftime_HM(w.worst_ts[1])
                                                  ELSE UnknownTime,
                            candle_count      |-> Len(common_ts),
                            sl_breached       |-> w.worst_combined >= sl,
                            hard_cap_breached |-> w.worst_combined >= cap])

-----------------------------------------------------------------------------
(* EXIT phase: thresholds                                                  *)

entry_combined == entry[1].entry_combined
saved_usd_inr == entry[1].usd_to_inr
sl_level == (entry_combined * SL_COMBINED_MULTIPLIER_X10) \div 10
hard_cap_level ==
    ((HARD_MAX_LOSS_INR * 100) \div saved_usd_inr) \div POSITION_SIZE_BTC
        + entry_combined

\* breached of the ExitDecision
breached ==
    IF sl_breached THEN "SOFT_SL"
    ELSE IF hard_cap_breached THEN "HARD_CAP"
    ELSE "NONE"

Fetched(tag) == \E i \in 1..Len(fetches) : fetches[i] = tag

-----------------------------------------------------------------------------
(* EXIT phase                                                              *)

Init ==
    /\ pc = "start"
    /\ DRY_RUN \in BOOLEAN
    /\ today_str = Today
    /\ now_ist \in NowTimes
    /\ active_trade \in {None} \cup {Some(t) : t \in Snapshots}
    /\ tracker = <<>>
    /\ entry = None
    /\ call_candles = None
    /\ put_candles = None
    /\ intraday = None
    /\ sl_breached = FALSE
    /\ hard_cap_breached = FALSE
    /\ exit_combined = None
    /\ exit_ce = None
    /\ exit_pe = None
    /\ exit_time_str = None
    /\ exit_reason = None
    /\ cd_now = None
    /\ pd_now = None
    /\ current_spot = None
    /\ cd = None
    /\ pd = None
    /\ settlement_spot = None
    /\ fetches = <<>>
    /\ log = {}
    /\ market_asks = Asks
    /\ call_resp = None
    /\ put_resp = None
    /\ close_ret = None
    /\ thresholds = None
    /\ env_dry_run = env_of(DRY_RUN)
    /\ is_saturday = FALSE
    /\ usd_inr = None
    /\ spot_price = None
    /\ chain = None
    /\ all_strikes = <<>>
    /\ atm_index = 0
    /\ best_combo = None
    /\ scan_log = <<>>
    /\ run_end = None
    /\ positions = <<>>
    /\ orders = <<>>
    /\ tick = None
    /\ exit_data = None

\* what the run is given and never writes
inputs == <<market_asks, call_resp, put_resp, close_ret, env_dry_run,
           thresholds>>
\* the variables of an ENTRY run
live == <<positions, orders, tick, exit_data>>
entry_run == <<is_saturday, usd_inr, spot_price, chain, all_strikes,
               atm_index, best_combo, scan_log, run_end, live>>
config == <<DRY_RUN, today_str, now_ist>>
decision == <<sl_breached, hard_cap_breached, exit_combined, exit_ce, exit_pe,
              exit_time_str, exit_reason>>
fallback_locals == <<cd_now, pd_now, current_spot>>
step2_locals == <<cd, pd, settlement_spot>>
candle_locals == <<call_candles, put_candles>>

\* os.path.exists(ACTIVE_TRADE_FILE) is false: nothing to exit
ExitNoFile ==
    /\ pc = "start"
    /\ active_trade = None
    /\ pc' = "done"
    /\ UNCHANGED <<config, inputs, entry_run, active_trade, tracker, entry, candle_locals, intraday,
                   decision, fallback_locals, step2_locals, fetches, log>>

\* the stale check comparing the day of the month alone
is_stale_day_only(entry_date, today) == entry_date[1] # today[1]

\* entry_date != today_str
is_stale(entry_date, today) == entry_date # today

\* the snapshot is of another day: it is deleted and the script exits
ExitStale ==
    /\ pc = "start"
    /\ active_trade # None
    /\ is_stale(active_trade[1].date, today_str)
    /\ entry' = active_trade
    /\ active_trade' = None
    /\ pc' = "done"
    /\ UNCHANGED <<config, inputs, entry_run, tracker, candle_locals, intraday, decision,
                   fallback_locals, step2_locals, fetches, log>>

\* the snapshot is of today: it is loaded and the thresholds are computed
ExitLoad ==
    /\ pc = "start"
    /\ active_trade # None
    /\ ~is_stale(active_trade[1].date, today_str)
    /\ entry' = active_trade
    /\ pc' = "step1_call"
    /\ UNCHANGED <<config, inputs, entry_run, active_trade, tracker, candle_locals, intraday,
                   decision, fallback_locals, step2_locals, fetches, log>>

\* STEP 1, call_candles = fetch_candles(call_symbol); a request that raises
\* ends get_intraday_worst_combined in its except clause, which returns None
Step1FetchCall ==
    /\ pc = "step1_call"
    /\ \E resp \in CandleResponses :
          IF resp.raised
          THEN /\ intraday' = None
               /\ pc' = "tier"
               /\ UNCHANGED candle_locals
          ELSE /\ call_candles' = fetch_candles(resp)
               /\ pc' = "step1_put"
               /\ UNCHANGED <<put_candles, intraday>>
    /\ fetches' = Append(fetches, "candles_call")
    /\ UNCHANGED <<config, inputs, entry_run, active_trade, tracker, entry, decision,
                   fallback_locals, step2_locals, log>>

\* STEP 1, put_candles = fetch_candles(put_symbol) and the rest of
\* get_intraday_worst_combined; its locals end with the call
Step1FetchPut ==
    /\ pc = "step1_put"
    /\ \E resp \in CandleResponses :
          intraday' = IF resp.raised THEN None
                      ELSE intraday_result(call_candles, fetch_candles(resp),
                                           sl_level, hard_cap_level)
    /\ call_candles' = None
    /\ put_candles' = None
    /\ pc' = "tier"
    /\ fetches' = Append(fetches, "candles_put")
    /\ UNCHANGED <<config, inputs, entry_run, active_trade, tracker, entry, decision,
                   fallback_locals, step2_locals, log>>

\* exit_ce, exit_pe of a breach found on candles: the level split by the
\* entry ratio
split_ce(level) ==
    IF entry_combined # 0
    THEN Round(level * entry[1].entry_ce, entry_combined)
    ELSE Round(level, 2)
split_pe(level) ==
    IF entry_combined # 0
    THEN Round(level * (entry_combined - entry[1].entry_ce), entry_combined)
    ELSE Round(level, 2)

\* STEP 1 taken only for a peak that breached the SL level
intraday_available_if_breached(i) == i # None /\ i[1].sl_breached

\* `if intraday:`
intraday_available(i) == i # None

\* STEP 1 testing the hard cap before the SL level
tier1_verdict_cap_first(i) ==
    IF i.hard_cap_breached THEN "HARD_CAP"
    ELSE IF i.sl_breached THEN "SOFT_SL"
    ELSE "NONE"

\* the verdict of STEP 1 on a peak: `if sl_breached ... elif hard_cap_breached`
tier1_verdict(i) ==
    IF i.sl_breached THEN "SOFT_SL"
    ELSE IF i.hard_cap_breached THEN "HARD_CAP"
    ELSE "NONE"

\* STEP 1 exiting at the observed peak
tier1_exit_combined_peak(verdict, i) == i.worst_combined

\* the exit_combined STEP 1 attributes to a breach
tier1_exit_combined(verdict, i) ==
    IF verdict = "SOFT_SL" THEN sl_level ELSE hard_cap_level

\* STEP 1 with a peak: SL first, then hard cap, else no breach
Tier1 ==
    /\ pc = "tier"
    /\ intraday_available(intraday)
    /\ LET i == intraday[1]
           v == tier1_verdict(i)
           x == tier1_exit_combined(v, i)
       IN  IF v = "NONE"
           THEN UNCHANGED decision
           ELSE /\ sl_breached' = (v = "SOFT_SL")
                /\ hard_cap_breached' = (v = "HARD_CAP")
                /\ exit_combined' = Some(x)
                /\ exit_time_str' = Some(i.worst_time)
                /\ exit_reason' = Some(IF v = "SOFT_SL"
                                       THEN "SL - Combined 2.5x (intraday)"
                                       ELSE "Hard Cap Rs.10,000 (intraday)")
                /\ exit_ce' = Some(split_ce(x))
                /\ exit_pe' = Some(split_pe(x))
    /\ pc' = "step2"
    /\ UNCHANGED <<config, inputs, entry_run, active_trade, tracker, entry, candle_locals, intraday,
                   fallback_locals, step2_locals, fetches, log>>

\* `if cd_now['success'] and pd_now['success']`
both_success(c, p) == c.success /\ p.success

\* the live price fallback testing the hard cap as well
tier2_verdict_with_cap(spot_combined) ==
    IF spot_combined >= sl_level THEN "SOFT_SL"
    ELSE IF spot_combined >= hard_cap_level THEN "HARD_CAP"
    ELSE "NONE"

\* the verdict of the live price fallback: compared with sl_level only
tier2_verdict(spot_combined) ==
    IF spot_combined >= sl_level THEN "SOFT_SL" ELSE "NONE"

\* FIX 4, safety fallback: no candles, so the live prices are tried
Tier2 ==
    /\ pc = "tier"
    /\ ~intraday_available(intraday)
    /\ \E c \in QuoteResults, p \in QuoteResults :
          /\ cd_now' = Some(c)
          /\ pd_now' = Some(p)
          /\ IF both_success(c, p)
             THEN LET spot_combined == c.ask + p.ask
                      v == tier2_verdict(spot_combined)
                  IN  /\ IF v # "NONE"
                         THEN /\ sl_breached' = (v = "SOFT_SL")
                              /\ hard_cap_breached' = (v = "HARD_CAP")
                              /\ exit_combined' = Some(spot_combined)
                              /\ exit_ce' = Some(c.ask)
                              /\ exit_pe' = Some(p.ask)
                              /\ exit_time_str' = Some(now_ist)
                              /\ exit_reason' =
                                   Some("SL - Combined 2.5x (live price fallback)")
                         ELSE UNCHANGED decision
                      /\ pc' = "step2"
             ELSE /\ pc' = "tier3"
                  /\ UNCHANGED decision
    /\ fetches' = fetches \o <<"live_call", "live_put">>
    /\ UNCHANGED <<config, inputs, entry_run, active_trade, tracker, entry, candle_locals, intraday,
                   current_spot, step2_locals, log>>

\* max(0.0, put_strike - spot) and max(0.0, spot - call_strike)
pe_intrinsic(spot) == Max(0, entry[1].put_strike - spot)
ce_intrinsic(spot) == Max(0, spot - entry[1].call_strike)

\* the verdict of the spot intrinsic fallback
tier3_verdict(est_combined) ==
    IF est_combined >= sl_level THEN "SOFT_SL" ELSE "NONE"

\* safety fallback, live price unavailable: intrinsic value from the spot
Tier3 ==
    /\ pc = "tier3"
    /\ \E spot \in SpotResults :
          /\ current_spot' = spot
          /\ IF spot # None
             THEN LET pe == pe_intrinsic(spot[1])
                      ce == ce_intrinsic(spot[1])
                      est_combined == pe + ce
                      v == tier3_verdict(est_combined)
                  IN  IF v # "NONE"
                      THEN /\ sl_breached' = (v = "SOFT_SL")
                           /\ hard_cap_breached' = (v = "HARD_CAP")
                           /\ exit_combined' = Some(est_combined)
                           /\ exit_ce' = Some(ce)
                           /\ exit_pe' = Some(pe)
                           /\ exit_time_str' = Some(now_ist)
                           /\ exit_reason' =
                                Some("SL - Combined 2.5x (estimated from settlement spot)")
                           /\ log' = log \cup {"Estimated SL breach: verify manually"}
                      ELSE /\ UNCHANGED decision
                           /\ log' = IF pe > 0 \/ ce > 0
                                     THEN log \cup {"Intrinsic value at expiry: verify intraday SL"}
                                     ELSE log
             ELSE /\ UNCHANGED decision
                  /\ log' = log \cup {"Cannot fetch spot: verify this trade manually"}
    /\ pc' = "step2"
    /\ fetches' = Append(fetches, "spot")
    /\ UNCHANGED <<config, inputs, entry_run, active_trade, tracker, entry, candle_locals, intraday,
                   cd_now, pd_now, step2_locals>>

\* STEP 2 guarded by the SL flag alone
step2_needed_sl_only == ~sl_breached

\* STEP 2 never run
step2_never_needed == FALSE

\* `if not sl_breached and not hard_cap_breached`
step2_needed == ~sl_breached /\ ~hard_cap_breached

\* a breach was found: STEP 2 is skipped
Step2Skip ==
    /\ pc = "step2"
    /\ ~step2_needed
    /\ pc' = "final"
    /\ UNCHANGED <<config, inputs, entry_run, active_trade, tracker, entry, candle_locals, intraday,
                   decision, fallback_locals, step2_locals, fetches, log>>

\* `if not cd['success'] or not pd['success']`
first_attempt_failed(c, p) == ~c.success \/ ~p.success

\* STEP 2: the live exit prices are fetched
Step2Fetch ==
    /\ pc = "step2"
    /\ step2_needed
    /\ \E c \in QuoteResults, p \in QuoteResults :
          /\ cd' = Some(c)
          /\ pd' = Some(p)
          /\ pc' = IF first_attempt_failed(c, p) THEN "retry" ELSE "price"
    /\ fetches' = fetches \o <<"exit_call", "exit_put">>
    /\ UNCHANGED <<config, inputs, entry_run, active_trade, tracker, entry, candle_locals, intraday,
                   decision, fallback_locals, settlement_spot, log>>

\* STEP 2: the one retry after 10 seconds
Step2Retry ==
    /\ pc = "retry"
    /\ \E c \in QuoteResults, p \in QuoteResults :
          /\ cd' = Some(c)
          /\ pd' = Some(p)
    /\ pc' = "price"
    /\ fetches' = fetches \o <<"retry_call", "retry_put">>
    /\ UNCHANGED <<config, inputs, entry_run, active_trade, tracker, entry, candle_locals, intraday,
                   decision, fallback_locals, settlement_spot, log>>

\* `cd['ask'] if cd['success'] else 0.0`
ask_or_zero(q) == IF q.success THEN q.ask ELSE 0

\* the exit reason of an exit that no branch named
default_reason(combined) ==
    IF combined < EARLY_EXIT_PREMIUM
    THEN "Early Exit - Premium decayed"
    ELSE "Time Exit (5:15 PM)"

\* STEP 2: exit prices from the quotes; a combined premium of 0 goes to the
\* zero-value guard, any other gets its reason
Step2Price ==
    /\ pc = "price"
    /\ LET ce == ask_or_zero(cd[1])
           pe == ask_or_zero(pd[1])
       IN  /\ exit_ce' = Some(ce)
           /\ exit_pe' = Some(pe)
           /\ exit_combined' = Some(ce + pe)
           /\ exit_time_str' = Some(now_ist)
           /\ IF ce + pe = 0
              THEN /\ pc' = "guard"
                   /\ UNCHANGED exit_reason
              ELSE /\ pc' = "final"
                   /\ exit_reason' = IF exit_reason = None
                                     THEN Some(default_reason(ce + pe))
                                     ELSE exit_reason
    /\ UNCHANGED <<config, inputs, entry_run, active_trade, tracker, entry, candle_locals, intraday,
                   sl_breached, hard_cap_breached, fallback_locals, step2_locals,
                   fetches, log>>

\* FIX 3, zero-value guard: both legs $0, intrinsic value from the spot
ZeroGuard ==
    /\ pc = "guard"
    /\ \E spot \in SpotResults :
          /\ settlement_spot' = spot
          /\ IF spot # None
             THEN LET pe == pe_intrinsic(spot[1])
                      ce == ce_intrinsic(spot[1])
                  IN  /\ exit_pe' = Some(pe)
                      /\ exit_ce' = Some(ce)
                      /\ exit_combined' = Some(ce + pe)
                      /\ IF ce + pe = 0
                         THEN /\ exit_reason' =
                                   Some("Time Exit - Options Expired OTM (full premium kept)")
                              /\ UNCHANGED log
                         ELSE /\ exit_reason' = IF exit_reason = None
                                                THEN Some(default_reason(ce + pe))
                                                ELSE exit_reason
                              /\ log' = log \cup
                                   {"Intrinsic value at expiry: verify intraday SL"}
             ELSE /\ exit_reason' = IF exit_reason = None
                                    THEN Some(default_reason(exit_combined[1]))
                                    ELSE exit_reason
                  /\ log' = log \cup {"Cannot fetch settlement spot"}
                  /\ UNCHANGED <<exit_pe, exit_ce, exit_combined>>
    /\ pc' = "final"
    /\ fetches' = Append(fetches, "settlement_spot")
    /\ UNCHANGED <<config, inputs, entry_run, active_trade, tracker, entry, candle_locals, intraday,
                   sl_breached, hard_cap_breached, exit_time_str, fallback_locals,
                   cd, pd>>

\* the dict handed to append_to_tracker
tracker_row ==
    LET pnl_usd == (entry_combined - exit_combined[1]) * POSITION_SIZE_BTC
    IN  [date           |-> entry[1].date,
         entry_time     |-> entry[1].entry_time,
         exit_time      |-> exit_time_str[1],
         call_strike    |-> entry[1].call_strike,
         put_strike     |-> entry[1].put_strike,
         entry_ce       |-> entry[1].entry_ce,
         entry_pe       |-> entry[1].entry_pe,
         entry_combined |-> entry_combined,
         exit_ce        |-> exit_ce[1],
         exit_pe        |-> exit_pe[1],
         exit_combined  |-> exit_combined[1],
         pnl_usd        |-> pnl_usd,
         pnl_inr        |-> pnl_usd * saved_usd_inr,
         exit_reason    |-> exit_reason[1],
         mode           |-> IF DRY_RUN THEN "DRY RUN" ELSE "LIVE"]

\* final P&L and append_to_tracker, which saves the workbook
FinalAppend ==
    /\ pc = "final"
    /\ tracker' = Append(tracker, tracker_row)
    /\ pc' = "cleanup"
    /\ UNCHANGED <<config, inputs, entry_run, active_trade, entry, candle_locals, intraday,
                   decision, fallback_locals, step2_locals, fetches, log>>

\* the cleanup done whether or not the row was written, as a `finally` would
FinalAppendFailsAndDeletes ==
    /\ pc = "final"
    /\ active_trade' = None
    /\ pc' = "done"
    /\ UNCHANGED <<config, inputs, entry_run, tracker, entry, candle_locals, intraday,
                   decision, fallback_locals, step2_locals, fetches, log>>

\* append_to_tracker raises (workbook missing its sheet, file not writable):
\* the script's `except Exception` logs the error and the run ends
FinalAppendFails ==
    /\ pc = "final"
    /\ pc' = "done"
    /\ UNCHANGED <<config, inputs, entry_run, active_trade, tracker, entry, candle_locals, intraday,
                   decision, fallback_locals, step2_locals, fetches, log>>

\* os.remove(ACTIVE_TRADE_FILE)
Cleanup ==
    /\ pc = "cleanup"
    /\ active_trade' = None
    /\ pc' = "done"
    /\ UNCHANGED <<config, inputs, entry_run, tracker, entry, candle_locals, intraday, decision,
                   fallback_locals, step2_locals, fetches, log>>

Next ==
    \/ ExitNoFile
    \/ ExitStale
    \/ ExitLoad
    \/ Step1FetchCall
    \/ Step1FetchPut
    \/ Tier1
    \/ Tier2
    \/ Tier3
    \/ Step2Skip
    \/ Step2Fetch
    \/ Step2Retry
    \/ Step2Price
    \/ ZeroGuard
    \/ FinalAppend
    \/ FinalAppendFails
    \/ Cleanup

Spec == Init /\ [][Next]_vars

-----------------------------------------------------------------------------
(* Properties of the EXIT evaluation                                       *)

\* the evaluation of a current-day snapshot has produced its decision
Decided ==
    /\ pc \in {"final", "cleanup", "done"}
    /\ exit_combined # None

\* STEP 1 has returned
Step1Returned ==
    pc \in {"tier", "tier3", "step2", "retry", "price", "guard", "final", "cleanup"}
        \/ (pc = "done" /\ Fetched("candles_call"))

\* a spot price was fetched and both legs had no intrinsic value at it
ZeroIntrinsicAt(spot) ==
    spot # None /\ pe_intrinsic(spot[1]) = 0 /\ ce_intrinsic(spot[1]) = 0

\* C1: a decision with breach NONE and exit combined premium 0 is only
\* recorded when a fetched spot price gave zero intrinsic value for both legs
C1_NoPhantomProfit ==
    (Decided /\ breached = "NONE" /\ exit_combined = Some(0))
        => (ZeroIntrinsicAt(settlement_spot) \/ ZeroIntrinsicAt(current_spot))

\* C2: from the moment a breach is recorded no further request is issued
\* (no later tier, no STEP 2 fetch, retry or zero-value guard) and the exit
\* premiums, time and reason of the decision are never written again; the
\* tracker row carries exactly those values
C2_BreachShortCircuits ==
    /\ [][breached # "NONE" => (decision' = decision /\ fetches' = fetches)]_vars
    /\ [](breached # "NONE" =>
            /\ ~Fetched("exit_call") /\ ~Fetched("retry_call")
            /\ ~Fetched("settlement_spot")
            /\ cd = None /\ pd = None /\ settlement_spot = None
            /\ (intraday # None => ~Fetched("live_call"))
            /\ (Fetched("spot") => sl_breached /\ current_spot # None)
            /\ \A i \in 1..Len(tracker) :
                  /\ tracker[i].exit_combined = exit_combined[1]
                  /\ tracker[i].exit_ce = exit_ce[1]
                  /\ tracker[i].exit_pe = exit_pe[1])

\* a HARD_CAP breach went through to the tracker without any STEP 2 request
C2_Witness ==
    /\ pc = "done"
    /\ breached = "HARD_CAP"
    /\ Len(tracker) = 1
    /\ tracker[1].exit_combined = hard_cap_level
    /\ fetches = <<"candles_call", "candles_put">>

Before(a, b) ==
    \A i, j \in 1..Len(fetches) : (fetches[i] = a /\ fetches[j] = b) => i < j

\* C3: the live-quote check is attempted only after the candle check returned
\* unavailable, the spot-intrinsic check only after that and a failed live
\* quote; with a peak neither of the two is attempted
C3_TiersInOrder ==
    /\ Fetched("live_call") =>
          /\ Fetched("candles_call") /\ Before("candles_call", "live_call")
          /\ intraday = None
    /\ Fetched("spot") =>
          /\ Fetched("live_call") /\ Before("live_put", "spot")
          /\ intraday = None
          /\ ~cd_now[1].success \/ ~pd_now[1].success
    /\ (Step1Returned /\ intraday # None) =>
          /\ ~Fetched("live_call") /\ ~Fetched("spot")
          /\ cd_now = None /\ pd_now = None /\ current_spot = None

\* all three tiers were attempted, in order, and the run completed
C3_Witness ==
    /\ pc = "done"
    /\ Len(tracker) = 1
    /\ intraday = None
    /\ cd_now # None /\ pd_now # None
    /\ cd_now[1].success /\ ~pd_now[1].success
    /\ current_spot # None
    /\ Fetched("spot")

\* C4: with a candle peak the decision is SOFT_SL whenever peak >= sl_level,
\* HARD_CAP only when hard_cap_level <= peak < sl_level, NONE otherwise
C4_SlBeforeHardCap ==
    (pc \in {"step2", "retry", "price", "guard", "final", "cleanup", "done"}
        /\ intraday # None) =>
       LET peak == intraday[1].worst_combined
       IN  breached = IF peak >= sl_level THEN "SOFT_SL"
                      ELSE IF peak >= hard_cap_level THEN "HARD_CAP"
                      ELSE "NONE"

\* a peak above both thresholds, the hard cap being the lower one, ended as
\* SOFT_SL
C4_Witness ==
    /\ pc = "done"
    /\ intraday # None
    /\ hard_cap_level < sl_level
    /\ intraday[1].worst_combined >= sl_level
    /\ breached = "SOFT_SL"
    /\ Len(tracker) = 1

\* C5: a breach found on candles exits at the threshold, not at the peak, and
\* at the minute of the peak: SOFT_SL at entry_combined x 2.5, HARD_CAP at
\* the premium whose loss is the hard cap; entry $10 and a peak of $30 at
\* 14:02 give SOFT_SL, $25, 14:02
C5_Tier1ExitAtThreshold ==
    (pc \in {"step2", "final", "cleanup", "done"}
        /\ intraday # None /\ breached # "NONE") =>
       /\ exit_time_str = Some(intraday[1].worst_time)
       /\ breached = "SOFT_SL" =>
             10 * exit_combined[1] = 25 * entry[1].entry_combined
       /\ breached = "HARD_CAP" =>
             (exit_combined[1] - entry[1].entry_combined)
                 * entry[1].usd_to_inr * POSITION_SIZE_LOTS
               = 10000 * 100 * 1000
       /\ (entry[1].entry_combined = 1000
             /\ intraday[1].worst_combined = 3000
             /\ intraday[1].worst_time = <<14, 2>>) =>
             /\ breached = "SOFT_SL"
             /\ exit_combined = Some(2500)
             /\ exit_time_str = Some(<<14, 2>>)
       /\ \A i \in 1..Len(tracker) :
             /\ tracker[i].exit_combined = exit_combined[1]
             /\ tracker[i].exit_time = intraday[1].worst_time

\* the example of the specification, recorded in the tracker
C5_Witness ==
    /\ pc = "done"
    /\ entry # None
    /\ intraday # None
    /\ entry[1].entry_combined = 1000
    /\ intraday[1].worst_combined = 3000
    /\ intraday[1].worst_time = <<14, 2>>
    /\ Len(tracker) = 1
    /\ tracker[1].exit_combined = 2500
    /\ tracker[1].exit_time = <<14, 2>>

\* STEP 2 ended on two successful quotes of exactly zero
BothLegsZero ==
    /\ cd # None /\ pd # None
    /\ cd[1].success /\ pd[1].success
    /\ cd[1].ask = 0 /\ pd[1].ask = 0

\* C6: an exit of $0 on both legs is always replaced by the spot-intrinsic
\* estimate, and the decision tells a zero estimate (expired worthless) from
\* a nonzero one (flagged for manual review)
C6_ZeroGuardAlwaysEstimates ==
    (Decided /\ BothLegsZero) =>
       /\ settlement_spot # None
       /\ exit_combined =
             Some(pe_intrinsic(settlement_spot[1]) + ce_intrinsic(settlement_spot[1]))
       /\ exit_combined = Some(0) =>
             exit_reason = Some("Time Exit - Options Expired OTM (full premium kept)")
       /\ exit_combined # Some(0) =>
             "Intrinsic value at expiry: verify intraday SL" \in log

est_combined_at(spot) == pe_intrinsic(spot[1]) + ce_intrinsic(spot[1])

\* C7: an estimate from spot intrinsic values that is >= sl_level yields
\* SOFT_SL, in the safety fallback and in the zero-value guard alike
C7_EstimateComparedWithSl ==
    Decided =>
       /\ (current_spot # None /\ est_combined_at(current_spot) >= sl_level)
             => breached = "SOFT_SL"
       /\ (settlement_spot # None /\ est_combined_at(settlement_spot) >= sl_level)
             => breached = "SOFT_SL"

\* C8: a leg whose quote could not be fetched, retry included, is not
\* recorded with an exit premium of 0 standing for its price
C8_FailedQuoteNotZero ==
    (Decided /\ cd # None /\ pd # None /\ settlement_spot = None) =>
       /\ ~cd[1].success => exit_ce # Some(0)
       /\ ~pd[1].success => exit_pe # Some(0)

\* C9: without candles the decision is never HARD_CAP; HARD_CAP comes from a
\* candle peak alone
C9_HardCapOnlyFromCandles ==
    /\ (Step1Returned /\ intraday = None) => breached # "HARD_CAP"
    /\ hard_cap_breached =>
          /\ intraday # None
          /\ intraday[1].worst_combined >= hard_cap_level
          /\ ~Fetched("live_call") /\ ~Fetched("spot")

\* no candles, a live combined premium between the hard cap and the SL level:
\* recorded without a breach
C9_Witness ==
    /\ pc = "done"
    /\ Len(tracker) = 1
    /\ intraday = None
    /\ cd_now # None /\ pd_now # None
    /\ cd_now[1].success /\ pd_now[1].success
    /\ cd_now[1].ask + pd_now[1].ask >= hard_cap_level
    /\ cd_now[1].ask + pd_now[1].ask < sl_level
    /\ breached = "NONE"

\* C10: a snapshot of another day is deleted and nothing else happens: no
\* request, no evaluation, no tracker row
C10_StaleDiscarded ==
    (entry # None /\ entry[1].date # today_str) =>
       /\ pc = "done"
       /\ active_trade = None
       /\ tracker = <<>>
       /\ fetches = <<>>
       /\ intraday = None
       /\ breached = "NONE"
       /\ exit_combined = None /\ exit_reason = None

\* a snapshot of the same day of another month was discarded
C10_Witness ==
    /\ pc = "done"
    /\ entry # None
    /\ entry[1].date[1] = today_str[1]
    /\ entry[1].date # today_str
    /\ active_trade = None
    /\ tracker = <<>>

-----------------------------------------------------------------------------
(* get_intraday_worst_combined on its own                                  *)

\* the candles {t1: (2,3), t2: (5,1), t3: (1,1)} in dollars (call, put) at
\* 14:02, 14:03 and 14:04
ExampleCallResponse ==
    [raised |-> FALSE, status |-> 200,
     candles |-> <<[time |-> Some(50520), close |-> Some(200)],
                   [time |-> Some(50580), close |-> Some(500)],
                   [time |-> Some(50640), close |-> Some(100)]>>]
ExamplePutResponse ==
    [raised |-> FALSE, status |-> 200,
     candles |-> <<[time |-> Some(50520), close |-> Some(300)],
                   [time |-> Some(50580), close |-> Some(100)],
                   [time |-> Some(50640), close |-> Some(100)]>>]
\* closes of $0 and $15
PeakCloses == {0, 1500}
\* a candle of either minute with or without a close, and one without a time
PeakCandles ==
    [time : {Some(t) : t \in CandleTimes},
     close : {None} \cup {Some(c) : c \in PeakCloses}]
    \cup {[time |-> None, close |-> Some(1500)]}
PeakResponses ==
    {[raised |-> TRUE, status |-> 0, candles |-> <<>>],
     [raised |-> FALSE, status |-> 400, candles |-> <<>>],
     ExampleCallResponse, ExamplePutResponse}
    \cup {[raised |-> FALSE, status |-> 200, candles |-> s] :
             s \in SeqUpTo(PeakCandles, MaxCandles)}

\* the whole function: requests.get raising in either fetch_candles lands in
\* the except clause; the put request is not made when the call's raised
get_intraday_worst_combined(cresp, presp, sl, cap) ==
    IF cresp.raised \/ presp.raised THEN None
    ELSE intraday_result(fetch_candles(cresp), fetch_candles(presp), sl, cap)

\* the state in which the EXIT phase calls the peak finder: a snapshot of
\* today is loaded, and the candle endpoint is about to answer
InitPeak ==
    /\ pc = "peak"
    /\ DRY_RUN = TRUE
    /\ today_str = Today
    /\ now_ist \in NowTimes
    /\ active_trade \in {Some(t) : t \in {x \in Snapshots :
                             /\ x.date = Today
                             /\ x.usd_to_inr = 100
                             /\ x.entry_combined = 1000}}
    /\ tracker = <<>>
    /\ entry = active_trade
    /\ call_candles = None
    /\ put_candles = None
    /\ intraday = None
    /\ sl_breached = FALSE
    /\ hard_cap_breached = FALSE
    /\ exit_combined = None
    /\ exit_ce = None
    /\ exit_pe = None
    /\ exit_time_str = None
    /\ exit_reason = None
    /\ cd_now = None
    /\ pd_now = None
    /\ current_spot = None
    /\ cd = None
    /\ pd = None
    /\ settlement_spot = None
    /\ fetches = <<>>
    /\ log = {}
    /\ market_asks = Asks
    /\ call_resp \in {Some(r) : r \in PeakResponses}
    /\ put_resp \in {Some(r) : r \in PeakResponses}
    /\ close_ret = None
    /\ thresholds = None
    /\ env_dry_run = env_of(DRY_RUN)
    /\ is_saturday = FALSE
    /\ usd_inr = None
    /\ spot_price = None
    /\ chain = None
    /\ all_strikes = <<>>
    /\ atm_index = 0
    /\ best_combo = None
    /\ scan_log = <<>>
    /\ run_end = None
    /\ positions = <<>>
    /\ orders = <<>>
    /\ tick = None
    /\ exit_data = None

\* intraday = get_intraday_worst_combined(...)
PeakRun ==
    /\ pc = "peak"
    /\ intraday' = get_intraday_worst_combined(call_resp[1], put_resp[1],
                                               sl_level, hard_cap_level)
    /\ pc' = "peak_done"
    /\ UNCHANGED <<config, inputs, entry_run, active_trade, tracker, entry,
                   candle_locals, decision, fallback_locals, step2_locals,
                   fetches, log>>

NextPeak == PeakRun

SpecPeak == InitPeak /\ [][NextPeak]_vars

-----------------------------------------------------------------------------
(* Claims about the peak finder                                            *)

\* the minutes a response has a candle for
minutes_of(resp) ==
    IF resp.raised \/ resp.status # 200 THEN {}
    ELSE {resp.candles[i].time[1] :
             i \in {j \in 1..Len(resp.candles) : resp.candles[j].time # None}}

\* the candle of minute t that counts: the last one in the response
candle_at(resp, t) ==
    LET at == {j \in 1..Len(resp.candles) : resp.candles[j].time = Some(t)}
    IN  resp.candles[CHOOSE j \in at : \A k \in at : k <= j]

close_at(resp, t) ==
    IF candle_at(resp, t).close = None THEN 0 ELSE candle_at(resp, t).close[1]

overlap == minutes_of(call_resp[1]) \cap minutes_of(put_resp[1])
combined_at(t) == close_at(call_resp[1], t) + close_at(put_resp[1], t)
peak_combined == CHOOSE m \in {combined_at(t) : t \in overlap} :
                    \A t \in overlap : combined_at(t) <= m

\* C18 as stated: a returned result counts the overlapping minutes, reports
\* the maximum of call_close + put_close over them, and names a minute at
\* which that maximum occurs
C18_PeakOverOverlap ==
    (pc = "peak_done" /\ intraday # None) =>
       /\ overlap # {}
       /\ intraday[1].candle_count = Cardinality(overlap)
       /\ intraday[1].worst_combined = peak_combined
       /\ \E t \in overlap : /\ combined_at(t) = peak_combined
                             /\ intraday[1].worst_time = strftime_HM(t)

\* C18, amended: as above, but the minute of the maximum is named only when
\* the maximum is above zero; a maximum of zero is reported with the time '?'
C18_PeakOverOverlapPositive ==
    (pc = "peak_done" /\ intraday # None) =>
       /\ overlap # {}
       /\ intraday[1].candle_count = Cardinality(overlap)
       /\ intraday[1].worst_combined = peak_combined
       /\ peak_combined > 0 =>
             \E t \in overlap : /\ combined_at(t) = peak_combined
                                /\ intraday[1].worst_time = strftime_HM(t)
       /\ peak_combined = 0 => intraday[1].worst_time = UnknownTime

\* the example {t1: (2,3), t2: (5,1), t3: (1,1)}: peak $6 at 14:03, count 3
C18_Witness ==
    /\ pc = "peak_done"
    /\ call_resp = Some(ExampleCallResponse)
    /\ put_resp = Some(ExamplePutResponse)
    /\ intraday # None
    /\ intraday[1].worst_combined = 600
    /\ intraday[1].worst_time = <<14, 3>>
    /\ intraday[1].candle_count = 3

\* C19: an error status, an empty candle list or an empty overlap gives the
\* unavailable result, and a returned result rests on no missing close
C19_UnavailableNeverZero ==
    pc = "peak_done" =>
       /\ (\/ call_resp[1].raised \/ put_resp[1].raised
           \/ call_resp[1].status # 200 \/ put_resp[1].status # 200
           \/ call_resp[1].candles = <<>> \/ put_resp[1].candles = <<>>
           \/ overlap = {}) => intraday = None
       /\ intraday # None =>
             \A t \in overlap : /\ candle_at(call_resp[1], t).close # None
                                /\ candle_at(put_resp[1], t).close # None

\* the first half of C19 alone
C19_UnavailablePart ==
    pc = "peak_done" =>
       ((\/ call_resp[1].raised \/ put_resp[1].raised
         \/ call_resp[1].status # 200 \/ put_resp[1].status # 200
         \/ call_resp[1].candles = <<>> \/ put_resp[1].candles = <<>>
         \/ overlap = {}) => intraday = None)

-----------------------------------------------------------------------------
(* ENTRY phase: the option chain                                           *)

\* most strikes of one chain whose quotes differ from the rest of their side
MaxSpecial == 1

\* quotes of one option, (best_bid, best_ask) in cents; "MISSING" is a strike
\* with no option of that type in the chain
QuoteKinds == {"MISSING", "LOW", "A", "B", "WIDE", "NOASK", "C", "D"}
quotes_of(kind) ==
    CASE kind = "LOW"   -> [best_bid |-> Some(490), best_ask |-> Some(500)]
      [] kind = "A"     -> [best_bid |-> Some(500), best_ask |-> Some(550)]
      [] kind = "B"     -> [best_bid |-> Some(900), best_ask |-> Some(1000)]
      [] kind = "WIDE"  -> [best_bid |-> Some(900), best_ask |-> Some(1300)]
      [] kind = "NOASK" -> [best_bid |-> Some(900), best_ask |-> None]
      [] kind = "C"     -> [best_bid |-> Some(4000), best_ask |-> Some(4400)]
      [] kind = "D"     -> [best_bid |-> Some(6000), best_ask |-> Some(6600)]

\* (strikes below the centre strike, strikes above it)
ChainShapes == {<<15, 15>>, <<14, 13>>, <<12, 15>>, <<13, 12>>, <<12, 10>>,
                <<9, 12>>}
\* the quotes of (calls at 13 strikes and further, calls nearer than 13, puts
\* at 13 and further, puts nearer than 13), where no special says otherwise
BaseKinds == {<<"A", "A", "A", "A">>, <<"LOW", "LOW", "LOW", "LOW">>,
              <<"LOW", "A", "LOW", "A">>, <<"A", "A", "LOW", "LOW">>,
              <<"LOW", "A", "A", "A">>}
Specials == [side : {"CE", "PE"}, dist : 10..15,
             kind : {"MISSING", "B", "WIDE", "NOASK"}]

\* the subsets of S of at most n elements
RECURSIVE SetsUpTo(_, _)
SetsUpTo(S, n) ==
    IF n = 0 THEN {{}}
    ELSE LET less == SetsUpTo(S, n - 1)
         IN  less \cup {T \cup {x} : T \in less, x \in S}

\* a chain of $1,000-spaced strikes around $65,000: every call above the
\* centre and every put below it quotes its side's base, except the specials
Chains ==
    {[below |-> sh[1], above |-> sh[2], ce_far |-> b[1], ce_near |-> b[2],
      pe_far |-> b[3], pe_near |-> b[4], special |-> sp] :
        sh \in ChainShapes,
        b \in BaseKinds,
        sp \in SetsUpTo(Specials, MaxSpecial)}

strike_at(ch, k) == 6500000 + (k - ch.below - 1) * 100000

\* the kind of the option of one type at strike number k
kind_at(ch, side, k) ==
    LET d == IF side = "CE" THEN k - ch.below - 1 ELSE ch.below + 1 - k
        sp == {x \in ch.special : x.side = side /\ x.dist = d}
    IN  IF sp # {} THEN (CHOOSE x \in sp : TRUE).kind
        ELSE IF side = "CE" THEN (IF d >= 13 THEN ch.ce_far ELSE ch.ce_near)
        ELSE (IF d >= 13 THEN ch.pe_far ELSE ch.pe_near)

\* all_strikes = sorted(set(float(o['strike_price']) for o in options))
\* all_strikes = sorted(set(float(o['strike_price']) for o in options)): the
\* strikes with a call or a put, each once, put in order by SortSeq
strikes_of(ch) ==
    LET present == SelectSeq([k \in 1..(ch.below + ch.above + 1) |-> k],
                       LAMBDA k : \/ kind_at(ch, "CE", k) # "MISSING"
                                  \/ kind_at(ch, "PE", k) # "MISSING")
    IN  SortSeq([i \in 1..Len(present) |-> strike_at(ch, present[i])],
                LAMBDA a, b : a < b)

abs(x) == IF x < 0 THEN -x ELSE x
Min(a, b) == IF a <= b THEN a ELSE b

\* min(all_strikes, key=...) walks the list and keeps the first of the
\* equally near strikes; best and i are positions counted from 1
RECURSIVE nearest(_, _, _, _)
nearest(strikes, spot, best, i) ==
    IF i > Len(strikes) THEN best
    ELSE IF abs(strikes[i] - spot) < abs(strikes[best] - spot)
    THEN nearest(strikes, spot, i, i + 1)
    ELSE nearest(strikes, spot, best, i + 1)

\* all_strikes.index(min(all_strikes, key=lambda x: abs(x - spot_price))),
\* counted from 1
index_of_nearest(strikes, spot) == nearest(strikes, spot, 1, 2)

\* calls_by_str.get(cs, {}) and puts_by_str.get(ps, {}): None is the {}
by_str_get(ch, side, strike) ==
    LET k == (strike - 6500000) \div 100000 + ch.below + 1
        kind == kind_at(ch, side, k)
    IN  IF kind = "MISSING" THEN None
        ELSE Some([symbol |-> <<side, strike>>,
                   product_id |-> <<side, strike>>,
                   quotes |-> quotes_of(kind)])

\* float(q.get(field, 0) or 0) of co.get('quotes', {})
quote_float(opt, field) ==
    IF opt = None THEN 0
    ELSE IF opt[1].quotes[field] = None THEN 0
    ELSE opt[1].quotes[field][1]

\* Python's range(a, b) as a sequence
range(a, b) == [i \in 1..Max(b - a, 0) |-> a + i - 1]

-----------------------------------------------------------------------------
(* ENTRY phase: run_strike_scan                                            *)

\* the pairs the nested loops visit, ce_d outer and pe_d inner
RECURSIVE loop_pairs(_, _)
loop_pairs(ce_ds, pe_ds) ==
    IF ce_ds = <<>> THEN <<>>
    ELSE [i \in 1..Len(pe_ds) |-> <<Head(ce_ds), pe_ds[i]>>]
             \o loop_pairs(Tail(ce_ds), pe_ds)

\* a spread test that lets a leg without an ask through
wide_leg_ask_only(a, b) == a > 0 /\ (a - b) * 100 > MAX_SPREAD_PCT * a

\* ((a - b) / a * 100 if a > 0 else 100) > MAX_SPREAD_PCT, in whole cents
wide_leg(a, b) ==
    IF a > 0 THEN (a - b) * 100 > MAX_SPREAD_PCT * a
    ELSE 100 > MAX_SPREAD_PCT

\* a floor test on the put leg alone
below_min_put_only(cb, pb) == pb < MIN_PREMIUM_USD

\* a floor test on the call leg alone
below_min_call_only(cb, pb) == cb < MIN_PREMIUM_USD

\* cb < MIN_PREMIUM_USD or pb < MIN_PREMIUM_USD
below_min(cb, pb) == cb < MIN_PREMIUM_USD \/ pb < MIN_PREMIUM_USD

\* a comparison that lets a later pair of equal imbalance replace the best
improves_or_ties(imb, bi) == bi = None \/ imb <= bi[1]

\* imb < bi, where bi starts as float('inf'), here None
improves(imb, bi) == bi = None \/ imb < bi[1]

\* one pass of the loop body for the pair (ce_d, pe_d); acc holds best, bi
\* and the lines logged for the pairs so far
scan_step(ch, strikes, atm, label, acc, pair) ==
    LET cs == strikes[atm + pair[1]]
        ps == strikes[atm - pair[2]]
        co == by_str_get(ch, "CE", cs)
        po == by_str_get(ch, "PE", ps)
        cb == quote_float(co, "best_bid")
        ca == quote_float(co, "best_ask")
        pb == quote_float(po, "best_bid")
        pa == quote_float(po, "best_ask")
        wide == wide_leg(ca, cb) \/ wide_leg(pa, pb)
        imb == abs(cb - pb)
        line(v) == [label |-> label, ce_d |-> pair[1], pe_d |-> pair[2],
                    imb |-> imb, verdict |-> v]
    IN  IF below_min(cb, pb)
        THEN [acc EXCEPT !.lines = Append(@, line("SKIP"))]
        ELSE IF ~wide /\ improves(imb, acc.bi)
        THEN [best |-> Some([call_strike      |-> cs,
                             put_strike       |-> ps,
                             ce_dist          |-> pair[1],
                             pe_dist          |-> pair[2],
                             call_symbol      |-> co[1].symbol,
                             put_symbol       |-> po[1].symbol,
                             call_product_id  |-> co[1].product_id,
                             put_product_id   |-> po[1].product_id,
                             call_bid         |-> cb,
                             call_ask         |-> ca,
                             put_bid          |-> pb,
                             put_ask          |-> pa,
                             combined_premium |-> cb + pb,
                             scan_label       |-> label]),
              bi |-> Some(imb),
              lines |-> Append(acc.lines, line("BEST"))]
        ELSE [acc EXCEPT !.lines = Append(@, line(IF wide THEN "WIDE"
                                                  ELSE "NOT_BETTER"))]

RECURSIVE scan_loop(_, _, _, _, _, _)
scan_loop(ch, strikes, atm, label, acc, pairs) ==
    IF pairs = <<>> THEN acc
    ELSE scan_loop(ch, strikes, atm, label,
                   scan_step(ch, strikes, atm, label, acc, Head(pairs)),
                   Tail(pairs))

\* max_ce = len(all_strikes) - atm_index - 1, with atm counted from 1
max_ce_of(strikes, atm) == Len(strikes) - atm
\* max_pe = atm_index, with atm counted from 1
max_pe_of(atm) == atm - 1

\* the loop bounds running to the end of the list whatever the range asked
scan_range_to_list_end(range_start, range_end, most) ==
    range(range_start, most + 1)

\* range(range_start, min(range_end + 1, most + 1))
scan_range(range_start, range_end, most) ==
    range(range_start, Min(range_end + 1, most + 1))

\* run_strike_scan(range_start, range_end, label, fh): best and the lines
\* logged, the "DELTA-NEUTRALITY SCAN" header first
run_strike_scan(ch, strikes, atm, range_start, range_end, label) ==
    LET ce_ds == scan_range(range_start, range_end, max_ce_of(strikes, atm))
        pe_ds == scan_range(range_start, range_end, max_pe_of(atm))
    IN  scan_loop(ch, strikes, atm, label,
                  [best |-> None, bi |-> None,
                   lines |-> <<[label |-> label, ce_d |-> 0, pe_d |-> 0,
                                imb |-> 0, verdict |-> "HEADER"]>>],
                  loop_pairs(ce_ds, pe_ds))

-----------------------------------------------------------------------------
(* ENTRY phase: scans, snapshot                                            *)

exit_run == <<entry, candle_locals, intraday, decision, fallback_locals,
              step2_locals, fetches>>

\* a warning raised only when both sides are short
strike_warning_both(max_ce, max_pe) == max_ce < 13 /\ max_pe < 13

\* max_ce < 13 or max_pe < 13
strike_warning(max_ce, max_pe) == max_ce < 13 \/ max_pe < 13

\* a fallback that runs whatever the primary scan found
fallback_always(best) == TRUE

\* `if not best_combo:` after the primary scan
fallback_needed(best) == best = None

\* the [WARNING] on too few strikes, then
\* best_combo = run_strike_scan(13, 15, "PRIMARY ...")
EntryScanPrimary ==
    /\ pc = "scan_primary"
    /\ LET r == run_strike_scan(chain[1], all_strikes, atm_index, 13, 15,
                                "PRIMARY")
       IN  /\ log' = IF strike_warning(max_ce_of(all_strikes, atm_index),
                                       max_pe_of(atm_index))
                     THEN log \cup {"NEED_13_STRIKES"}
                     ELSE log
           /\ best_combo' = r.best
           /\ scan_log' = scan_log \o r.lines
           /\ pc' = IF fallback_needed(r.best) THEN "scan_fallback"
                    ELSE "selected"
    /\ UNCHANGED <<config, inputs, exit_run, live, active_trade, tracker,
                   is_saturday, usd_inr, spot_price, chain, all_strikes,
                   atm_index, run_end>>

\* best_combo = run_strike_scan(10, 12, "FALLBACK ...")
EntryScanFallback ==
    /\ pc = "scan_fallback"
    /\ LET r == run_strike_scan(chain[1], all_strikes, atm_index, 10, 12,
                                "FALLBACK")
       IN  /\ best_combo' = r.best
           /\ scan_log' = scan_log \o r.lines
           /\ pc' = IF r.best = None THEN "no_pair" ELSE "selected"
    /\ UNCHANGED <<config, inputs, exit_run, live, active_trade, tracker, log,
                   is_saturday, usd_inr, spot_price, chain, all_strikes,
                   atm_index, run_end>>

\* the no-pair ending taken for an error instead of a clean exit
EntrySkipAsError ==
    /\ pc = "no_pair"
    /\ run_end' = Some("FatalError")
    /\ pc' = "entry_done"
    /\ UNCHANGED <<config, inputs, exit_run, live, active_trade, tracker, log,
                   is_saturday, usd_inr, spot_price, chain, all_strikes,
                   atm_index, best_combo, scan_log>>

\* `if not best_combo: raise SystemExit(0)`, caught as a clean exit
EntrySkip ==
    /\ pc = "no_pair"
    /\ run_end' = Some("SystemExit(0)")
    /\ pc' = "entry_done"
    /\ UNCHANGED <<config, inputs, exit_run, live, active_trade, tracker, log,
                   is_saturday, usd_inr, spot_price, chain, all_strikes,
                   atm_index, best_combo, scan_log>>

\* the active_trade dict written to active_trade.json
entry_snapshot ==
    LET b == best_combo[1]
    IN  [date            |-> today_str,
         entry_time      |-> now_ist,
         btc_spot        |-> spot_price[1],
         atm_strike      |-> all_strikes[atm_index],
         usd_to_inr      |-> usd_inr[1],
         call_strike     |-> b.call_strike,
         put_strike      |-> b.put_strike,
         ce_dist         |-> b.ce_dist,
         pe_dist         |-> b.pe_dist,
         call_symbol     |-> b.call_symbol,
         put_symbol      |-> b.put_symbol,
         call_product_id |-> b.call_product_id,
         put_product_id  |-> b.put_product_id,
         entry_ce        |-> b.call_bid,
         entry_pe        |-> b.put_bid,
         entry_combined  |-> b.combined_premium]

\* the snapshot is saved; a dry run, or a live run on another day than
\* Saturday, places no order and ends
EntrySave ==
    /\ pc = "selected"
    /\ active_trade' = Some(entry_snapshot)
    /\ IF ~DRY_RUN /\ is_saturday
       THEN pc' = "place_call" /\ UNCHANGED run_end
       ELSE pc' = "entry_done" /\ run_end' = Some("Done")
    /\ UNCHANGED <<config, inputs, exit_run, live, tracker, log, is_saturday,
                   usd_inr, spot_price, chain, all_strikes, atm_index,
                   best_combo, scan_log>>

\* the spot fetched with a chain: midway between the centre strike and the
\* next, nearer to the next strike, or at the centre strike
spot_for(ch) ==
    IF ch.below = 15 THEN 6550000
    ELSE IF ch.below = 12 /\ ch.above = 15 THEN 6560000
    ELSE 6500000

\* the state after the spot and the chain are fetched, for every chain of the
\* family
InitScan ==
    /\ pc = "scan_primary"
    /\ DRY_RUN = TRUE
    /\ today_str = Today
    /\ now_ist = <<3, 30>>
    /\ active_trade = None
    /\ tracker = <<>>
    /\ entry = None
    /\ call_candles = None
    /\ put_candles = None
    /\ intraday = None
    /\ sl_breached = FALSE
    /\ hard_cap_breached = FALSE
    /\ exit_combined = None
    /\ exit_ce = None
    /\ exit_pe = None
    /\ exit_time_str = None
    /\ exit_reason = None
    /\ cd_now = None
    /\ pd_now = None
    /\ current_spot = None
    /\ cd = None
    /\ pd = None
    /\ settlement_spot = None
    /\ fetches = <<>>
    /\ log = {}
    /\ market_asks = Asks
    /\ call_resp = None
    /\ put_resp = None
    /\ close_ret = None
    /\ thresholds = None
    /\ env_dry_run = env_of(DRY_RUN)
    /\ is_saturday = FALSE
    /\ usd_inr = Some(100)
    /\ chain \in {Some(c) : c \in Chains}
    /\ spot_price = Some(spot_for(chain[1]))
    /\ all_strikes = strikes_of(chain[1])
    /\ atm_index = index_of_nearest(all_strikes, spot_price[1])
    /\ best_combo = None
    /\ scan_log = <<>>
    /\ run_end = None
    /\ positions = <<>>
    /\ orders = <<>>
    /\ tick = None
    /\ exit_data = None

NextScan == EntryScanPrimary \/ EntryScanFallback \/ EntrySkip \/ EntrySave

SpecScan == InitScan /\ [][NextScan]_vars

-----------------------------------------------------------------------------
(* Claims about the strike scanner                                         *)

MaxCe == Len(all_strikes) - atm_index
MaxPe == atm_index - 1

\* best bid and ask, in cents, of the leg d strikes from the money; 0 when
\* the chain has no such option or no such quote
bid_of(side, d) ==
    quote_float(by_str_get(chain[1], side,
                    all_strikes[IF side = "CE" THEN atm_index + d ELSE atm_index - d]),
                "best_bid")
ask_of(side, d) ==
    quote_float(by_str_get(chain[1], side,
                    all_strikes[IF side = "CE" THEN atm_index + d ELSE atm_index - d]),
                "best_ask")

\* the candidate pairs (call offset, put offset) of a range
Candidates(lo, hi) ==
    {pr \in (lo..hi) \X (lo..hi) : pr[1] <= MaxCe /\ pr[2] <= MaxPe}
passes_floor(pr) ==
    bid_of("CE", pr[1]) >= MIN_PREMIUM_USD /\ bid_of("PE", pr[2]) >= MIN_PREMIUM_USD
spread_ok(side, d) ==
    /\ ask_of(side, d) > 0
    /\ (ask_of(side, d) - bid_of(side, d)) * 100 <= MAX_SPREAD_PCT * ask_of(side, d)
passes_spread(pr) == spread_ok("CE", pr[1]) /\ spread_ok("PE", pr[2])
imbalance(pr) == abs(bid_of("CE", pr[1]) - bid_of("PE", pr[2]))
Valid(lo, hi) == {pr \in Candidates(lo, hi) : passes_floor(pr) /\ passes_spread(pr)}
\* scan order: call offset ascending, then put offset ascending
Earlier(p, q) == p[1] < q[1] \/ (p[1] = q[1] /\ p[2] < q[2])
\* the first, in scan order, of the valid pairs of least imbalance
FirstMinimal(lo, hi) ==
    CHOOSE pr \in Valid(lo, hi) :
        \A q \in Valid(lo, hi) :
            \/ imbalance(pr) < imbalance(q)
            \/ (imbalance(pr) = imbalance(q) /\ (pr = q \/ Earlier(pr, q)))

selected_pair == <<best_combo[1].ce_dist, best_combo[1].pe_dist>>
\* the range the selected pair was found in
selected_lo == IF best_combo[1].scan_label = "PRIMARY" THEN 13 ELSE 10
selected_hi == IF best_combo[1].scan_label = "PRIMARY" THEN 15 ELSE 12
\* the pair is the one the chain quotes at those strikes
SelectedAsQuoted ==
    /\ selected_pair \in Candidates(selected_lo, selected_hi)
    /\ best_combo[1].call_strike = all_strikes[atm_index + selected_pair[1]]
    /\ best_combo[1].put_strike = all_strikes[atm_index - selected_pair[2]]
    /\ best_combo[1].call_bid = bid_of("CE", selected_pair[1])
    /\ best_combo[1].put_bid = bid_of("PE", selected_pair[2])
    /\ best_combo[1].call_ask = ask_of("CE", selected_pair[1])
    /\ best_combo[1].put_ask = ask_of("PE", selected_pair[2])

\* the pairs a scan logged, in order, without the header
evaluated(label) ==
    LET ls == SelectSeq(scan_log,
                  LAMBDA l : l.label = label /\ l.verdict # "HEADER")
    IN  [i \in 1..Len(ls) |-> <<ls[i].ce_d, ls[i].pe_d>>]
Scanned(label) == \E i \in 1..Len(scan_log) : scan_log[i].label = label

\* C12: a selected pair has both best bids at or above the minimum premium
C12_FloorNeverSelected ==
    best_combo # None =>
       /\ SelectedAsQuoted
       /\ passes_floor(selected_pair)

\* a pair was selected although a pair below the floor had a smaller
\* imbalance than every pair of the range that passes both filters
C12_Witness ==
    /\ pc = "entry_done"
    /\ best_combo # None
    /\ \E pr \in Candidates(selected_lo, selected_hi) :
          /\ ~passes_floor(pr)
          /\ \A q \in Valid(selected_lo, selected_hi) :
                imbalance(pr) < imbalance(q)

\* a sequence of pairs holds exactly the pairs of S, in scan order
InScanOrder(seq, S) ==
    /\ Len(seq) = Cardinality(S)
    /\ \A i \in 1..Len(seq) : seq[i] \in S
    /\ \A i \in 1..Len(seq) : \A j \in (i + 1)..Len(seq) : Earlier(seq[i], seq[j])

\* C13: a selected pair has both spreads within the maximum (an ask of 0 or
\* less counts as too wide), and a scan evaluates every candidate pair of its
\* range, in scan order, whatever it rejected on the way
C13_SpreadNeverSelected ==
    /\ best_combo # None =>
          /\ SelectedAsQuoted
          /\ passes_spread(selected_pair)
    /\ Scanned("PRIMARY") => InScanOrder(evaluated("PRIMARY"), Candidates(13, 15))
    /\ Scanned("FALLBACK") => InScanOrder(evaluated("FALLBACK"), Candidates(10, 12))

\* a pair was selected after an earlier pair of the same scan, with asks on
\* both legs, was rejected for its spread
C13_Witness ==
    /\ pc = "entry_done"
    /\ best_combo # None
    /\ \E i, k \in 1..Len(scan_log) :
          /\ i < k
          /\ scan_log[i].verdict = "WIDE"
          /\ scan_log[i].label = best_combo[1].scan_label
          /\ ask_of("CE", scan_log[i].ce_d) > 0
          /\ ask_of("PE", scan_log[i].pe_d) > 0
          /\ scan_log[k].verdict = "BEST"
          /\ <<scan_log[k].ce_d, scan_log[k].pe_d>> = selected_pair

\* the same after a pair whose call has no ask
C13_WitnessNoAsk ==
    /\ pc = "entry_done"
    /\ best_combo # None
    /\ \E i, k \in 1..Len(scan_log) :
          /\ i < k
          /\ scan_log[i].verdict = "WIDE"
          /\ scan_log[i].label = best_combo[1].scan_label
          /\ ask_of("CE", scan_log[i].ce_d) = 0
          /\ scan_log[k].verdict = "BEST"
          /\ <<scan_log[k].ce_d, scan_log[k].pe_d>> = selected_pair

\* what a scan of the range lo..hi returns, as the claim has it
ScanResultIs(label, lo, hi, best) ==
    IF Valid(lo, hi) = {} THEN best = None
    ELSE /\ best # None
         /\ best[1].scan_label = label
         /\ <<best[1].ce_dist, best[1].pe_dist>> = FirstMinimal(lo, hi)

\* C14: a scan returns the first, in scan order, of the pairs of least
\* imbalance among those passing both filters, a function of the chain
\* alone, and returns no pair exactly when no candidate passes both
C14_FirstMinimalValid ==
    /\ (pc = "scan_fallback" \/ (best_combo # None /\ selected_lo = 13)) =>
          ScanResultIs("PRIMARY", 13, 15, best_combo)
    /\ (pc = "no_pair" \/ (best_combo # None /\ selected_lo = 10)) =>
          ScanResultIs("FALLBACK", 10, 12, best_combo)

\* the selected pair is not the first valid pair scanned, and a later pair
\* ties with it
C14_Witness ==
    /\ pc = "entry_done"
    /\ best_combo # None
    /\ \E pr \in Valid(selected_lo, selected_hi) :
          Earlier(pr, selected_pair) /\ imbalance(pr) > imbalance(selected_pair)
    /\ \E pr \in Valid(selected_lo, selected_hi) :
          Earlier(selected_pair, pr) /\ imbalance(pr) = imbalance(selected_pair)

\* no pair passes both filters although candidates were evaluated
C14_WitnessNone ==
    /\ pc = "no_pair"
    /\ best_combo = None
    /\ Candidates(10, 12) # {}
    /\ Valid(10, 12) = {}

\* C15: the fallback range is scanned exactly when the primary scan found
\* no pair, never after a primary pair was found, and always before the
\* no-pair outcome; a pair found by the primary scan stays selected
C15_FallbackOnlyAfterEmptyPrimary ==
    /\ [](Scanned("FALLBACK") => (Scanned("PRIMARY") /\ Valid(13, 15) = {}))
    /\ []((pc \in {"selected", "no_pair", "entry_done"} /\ Valid(13, 15) = {})
             => Scanned("FALLBACK"))
    /\ [](run_end = Some("SystemExit(0)") => Scanned("FALLBACK"))
    /\ []((best_combo # None /\ Valid(13, 15) # {}) =>
             /\ best_combo[1].scan_label = "PRIMARY"
             /\ selected_pair = FirstMinimal(13, 15))
    /\ [][best_combo # None => best_combo' = best_combo]_vars

\* the primary pair was kept although the fallback range holds a valid pair
\* of smaller imbalance
C15_Witness ==
    /\ pc = "entry_done"
    /\ best_combo # None
    /\ best_combo[1].scan_label = "PRIMARY"
    /\ ~Scanned("FALLBACK")
    /\ \E pr \in Valid(10, 12) : imbalance(pr) < imbalance(selected_pair)

\* the fallback scan found a pair after a primary scan that evaluated pairs
\* and found none
C15_WitnessFallback ==
    /\ pc = "entry_done"
    /\ best_combo # None
    /\ best_combo[1].scan_label = "FALLBACK"
    /\ Candidates(13, 15) # {}

\* C17: a range with fewer strikes than its first offset on either side
\* evaluates no pair; the shortage is a [WARNING] line and the run goes on
\* to the fallback scan and, with no pair, to the clean no-trade exit
C17_ShortSideSkipsRange ==
    /\ (Scanned("PRIMARY") /\ (MaxCe < 13 \/ MaxPe < 13)) =>
          /\ evaluated("PRIMARY") = <<>>
          /\ "NEED_13_STRIKES" \in log
          /\ pc \in {"scan_fallback", "selected", "no_pair", "entry_done"}
          /\ pc # "scan_fallback" => Scanned("FALLBACK")
    /\ (Scanned("FALLBACK") /\ (MaxCe < 10 \/ MaxPe < 10)) =>
          /\ evaluated("FALLBACK") = <<>>
          /\ "NEED_13_STRIKES" \in log
          /\ best_combo = None
          /\ pc \in {"no_pair", "entry_done"}
          /\ pc = "entry_done" => run_end = Some("SystemExit(0)")
    /\ run_end # Some("FatalError")

\* with 12 calls above the money and 13 puts below, the primary scan was
\* skipped with a warning and the fallback scan selected a pair
C17_Witness ==
    /\ pc = "entry_done"
    /\ MaxCe = 12 /\ MaxPe >= 13
    /\ "NEED_13_STRIKES" \in log
    /\ evaluated("PRIMARY") = <<>>
    /\ best_combo # None
    /\ best_combo[1].scan_label = "FALLBACK"

\* with 9 puts below the money both scans were skipped and the day ended as
\* a no-trade day
C17_WitnessNoTrade ==
    /\ pc = "entry_done"
    /\ MaxPe = 9
    /\ evaluated("PRIMARY") = <<>> /\ evaluated("FALLBACK") = <<>>
    /\ Scanned("FALLBACK")
    /\ run_end = Some("SystemExit(0)")

-----------------------------------------------------------------------------
(* ENTRY phase: fetches, live orders                                       *)

\* chains a whole ENTRY run is checked with: $5 + $5 and $40 + $60 premiums
\* at 13 strikes, no bid at the minimum anywhere, and nine puts only
EntryChains ==
    {[below |-> 15, above |-> 15, ce_far |-> "A", ce_near |-> "A",
      pe_far |-> "A", pe_near |-> "A", special |-> {}],
     [below |-> 15, above |-> 15, ce_far |-> "C", ce_near |-> "C",
      pe_far |-> "D", pe_near |-> "D", special |-> {}],
     [below |-> 13, above |-> 13, ce_far |-> "LOW", ce_near |-> "LOW",
      pe_far |-> "LOW", pe_near |-> "LOW", special |-> {}],
     [below |-> 9, above |-> 12, ce_far |-> "A", ce_near |-> "A",
      pe_far |-> "A", pe_near |-> "A", special |-> {}]}
\* asks of the ticker endpoint during a live run
EntryAsks == {0, 300, 10500, 15000}
\* 17:14, 17:15 and 18:05
MonitorTimes == {<<17, 14>>, <<17, 15>>, <<18, 5>>}
\* a close_position call: get_positions fails, the closing order is refused,
\* or it goes through
CloseOutcomes == {"NO_POSITIONS", "REJECTED", "OK"}

\* the run starts: a dry run or a live one, on a Saturday or not
InitEntry ==
    /\ pc = "entry_start"
    /\ DRY_RUN \in BOOLEAN
    /\ today_str = Today
    /\ now_ist = <<3, 30>>
    /\ active_trade = None
    /\ tracker = <<>>
    /\ entry = None
    /\ call_candles = None
    /\ put_candles = None
    /\ intraday = None
    /\ sl_breached = FALSE
    /\ hard_cap_breached = FALSE
    /\ exit_combined = None
    /\ exit_ce = None
    /\ exit_pe = None
    /\ exit_time_str = None
    /\ exit_reason = None
    /\ cd_now = None
    /\ pd_now = None
    /\ current_spot = None
    /\ cd = None
    /\ pd = None
    /\ settlement_spot = None
    /\ fetches = <<>>
    /\ log = {}
    /\ market_asks = EntryAsks
    /\ call_resp = None
    /\ put_resp = None
    /\ close_ret = None
    /\ thresholds = None
    /\ env_dry_run = env_of(DRY_RUN)
    /\ is_saturday \in BOOLEAN
    /\ usd_inr = Some(100)
    /\ spot_price = None
    /\ chain = None
    /\ all_strikes = <<>>
    /\ atm_index = 0
    /\ best_combo = None
    /\ scan_log = <<>>
    /\ run_end = None
    /\ positions = <<>>
    /\ orders = <<>>
    /\ tick = None
    /\ exit_data = None

scan_state == <<spot_price, chain, all_strikes, atm_index, best_combo, scan_log>>
files == <<active_trade, tracker>>

\* requests.get(/v2/tickers/BTCUSD): any other status than 200 raises
\* Exception, which the script's `except Exception` logs as a fatal error
EntryFetchSpot ==
    /\ pc = "entry_start"
    /\ \E ok \in BOOLEAN :
          IF ok
          THEN /\ spot_price' = Some(6550000)
               /\ pc' = "entry_chain"
               /\ UNCHANGED run_end
          ELSE /\ run_end' = Some("FatalError")
               /\ pc' = "entry_done"
               /\ UNCHANGED spot_price
    /\ UNCHANGED <<config, inputs, exit_run, live, files, log, is_saturday,
                   usd_inr, chain, all_strikes, atm_index, best_combo, scan_log>>

\* requests.get(/v2/tickers) for the chain: an error status is fatal, an
\* empty chain ends the run with SystemExit(0); then the strikes and the ATM
EntryFetchChain ==
    /\ pc = "entry_chain"
    /\ \/ /\ run_end' = Some("FatalError")
          /\ pc' = "entry_done"
          /\ UNCHANGED <<chain, all_strikes, atm_index>>
       \/ /\ run_end' = Some("SystemExit(0)")
          /\ pc' = "entry_done"
          /\ UNCHANGED <<chain, all_strikes, atm_index>>
       \/ \E c \in EntryChains :
             /\ chain' = Some(c)
             /\ all_strikes' = strikes_of(c)
             /\ atm_index' = index_of_nearest(strikes_of(c), spot_price[1])
             /\ pc' = "scan_primary"
             /\ UNCHANGED run_end
    /\ UNCHANGED <<config, inputs, exit_run, live, files, log, is_saturday,
                   usd_inr, spot_price, best_combo, scan_log>>

size_of(pos, pid) == IF pid \in DOMAIN pos THEN pos[pid] ELSE 0

\* the exchange after it accepted an order: selling lowers the size held
filled(pos, order) ==
    Put(pos, order.product_id,
        size_of(pos, order.product_id)
            + (IF order.side = "buy" THEN order.size ELSE -order.size))

\* close_position sending its order without looking at the size held
close_position_always_orders(ex, product_id, size, outcome) ==
    LET target == size_of(ex.positions, product_id)
        order == [product_id |-> product_id, size |-> abs(size),
                  side |-> IF target > 0 THEN "buy" ELSE "sell"]
    IN  IF outcome = "NO_POSITIONS" \/ outcome = "REJECTED"
        THEN ex
        ELSE [positions |-> filled(ex.positions, order),
              orders |-> Append(ex.orders, order)]

\* close_position(product_id, size) against the exchange ex = [positions,
\* orders]; an order is sent only for a position of non-zero size
close_position(ex, product_id, size, outcome) ==
    LET target == size_of(ex.positions, product_id)
        order == [product_id |-> product_id, size |-> abs(size),
                  side |-> IF target > 0 THEN "buy" ELSE "sell"]
    IN  IF outcome = "NO_POSITIONS" \/ target = 0 \/ outcome = "REJECTED"
        THEN ex
        ELSE [positions |-> filled(ex.positions, order),
              orders |-> Append(ex.orders, order)]

\* what close_position returns: already_closed, success, or an error
close_result(ex, product_id, outcome) ==
    IF outcome = "NO_POSITIONS" THEN "error"
    ELSE IF size_of(ex.positions, product_id) = 0 THEN "already_closed"
    ELSE IF outcome = "REJECTED" THEN "error"
    ELSE "closed_ok"

\* _close_both_legs stopping after the call leg
close_calls_call_only(ex, call_pid, put_pid, c_out, p_out) ==
    IF DRY_RUN THEN <<>>
    ELSE <<[product_id |-> call_pid,
            result |-> close_result(ex, call_pid, c_out)]>>

\* the close_position calls of _close_both_legs, in order, each with the
\* product it was called for and what it returned
close_calls(ex, call_pid, put_pid, c_out, p_out) ==
    IF DRY_RUN THEN <<>>
    ELSE <<[product_id |-> call_pid,
            result |-> close_result(ex, call_pid, c_out)],
           [product_id |-> put_pid,
            result |-> close_result(
                          close_position(ex, call_pid, POSITION_SIZE_LOTS, c_out),
                          put_pid, p_out)]>>

\* _close_both_legs(fh, call_pid, put_pid, reason)
close_both_legs(ex, call_pid, put_pid, c_out, p_out) ==
    IF DRY_RUN THEN ex
    ELSE close_position(close_position(ex, call_pid, POSITION_SIZE_LOTS, c_out),
                        put_pid, POSITION_SIZE_LOTS, p_out)

\* place_order(call_product_id, POSITION_SIZE_LOTS, 'sell'); a refusal raises
EntryPlaceCall ==
    /\ pc = "place_call"
    /\ \E ok \in BOOLEAN :
          LET order == [product_id |-> best_combo[1].call_product_id,
                        size |-> POSITION_SIZE_LOTS, side |-> "sell"]
          IN  IF ok
              THEN /\ orders' = Append(orders, order)
                   /\ positions' = filled(positions, order)
                   /\ pc' = "place_put"
                   /\ UNCHANGED run_end
              ELSE /\ run_end' = Some("FatalError")
                   /\ pc' = "entry_done"
                   /\ UNCHANGED <<orders, positions>>
    /\ UNCHANGED <<config, inputs, exit_run, files, log, is_saturday, usd_inr,
                   scan_state, tick, exit_data>>

\* place_order(put_product_id, POSITION_SIZE_LOTS, 'sell'); on a refusal the
\* call is rolled back with close_position and the run ends in the error
EntryPlacePut ==
    /\ pc = "place_put"
    /\ \E ok \in BOOLEAN, rollback \in CloseOutcomes :
          LET order == [product_id |-> best_combo[1].put_product_id,
                        size |-> POSITION_SIZE_LOTS, side |-> "sell"]
              ex == close_position([positions |-> positions, orders |-> orders],
                                   best_combo[1].call_product_id,
                                   POSITION_SIZE_LOTS, rollback)
          IN  IF ok
              THEN /\ orders' = Append(orders, order)
                   /\ positions' = filled(positions, order)
                   /\ pc' = "monitor"
                   /\ UNCHANGED run_end
              ELSE /\ orders' = ex.orders
                   /\ positions' = ex.positions
                   /\ run_end' = Some("FatalError")
                   /\ pc' = "entry_done"
    /\ UNCHANGED <<config, inputs, exit_run, files, log, is_saturday, usd_inr,
                   scan_state, tick, exit_data>>

-----------------------------------------------------------------------------
(* monitor_live                                                            *)

\* the time test looking at the hour alone
time_exit_due_hour_only(now) == now[1] > EXIT_HOUR

\* now.hour > EXIT_HOUR or (now.hour == EXIT_HOUR and now.minute >= EXIT_MINUTE)
time_exit_due(now) ==
    now[1] > EXIT_HOUR \/ (now[1] = EXIT_HOUR /\ now[2] >= EXIT_MINUTE)

\* any(p.get('product_id') == pid and int(p.get('size', 0)) != 0 ...)
has_leg(pos, pid) == size_of(pos, pid) # 0

\* the branches of one poll with the manual exit taken as soon as one leg
\* is flat
monitor_verdict_any_leg_flat(now, q_c, q_p, pos_res, call_pid, put_pid, entry_comb, rate) ==
    IF time_exit_due(now) THEN "TIME_EXIT"
    ELSE IF ~q_c.success \/ ~q_p.success THEN "RETRY"
    ELSE IF /\ pos_res.success
            /\ \/ ~has_leg(pos_res.positions, call_pid)
               \/ ~has_leg(pos_res.positions, put_pid)
    THEN "MANUAL_EXIT"
    ELSE IF (q_c.ask + q_p.ask) * 10 >= entry_comb * SL_COMBINED_MULTIPLIER_X10
    THEN "SOFT_SL"
    ELSE IF (q_c.ask + q_p.ask - entry_comb) * POSITION_SIZE_BTC * rate
               >= HARD_MAX_LOSS_INR * 100
    THEN "HARD_CAP"
    ELSE IF q_c.ask + q_p.ask < EARLY_EXIT_PREMIUM THEN "EARLY_EXIT"
    ELSE "SLEEP"

\* the branches of one poll with the stop loss looked at before the clock
monitor_verdict_sl_first(now, q_c, q_p, pos_res, call_pid, put_pid, entry_comb, rate) ==
    IF q_c.success /\ q_p.success
          /\ (q_c.ask + q_p.ask) * 10 >= entry_comb * SL_COMBINED_MULTIPLIER_X10
    THEN "SOFT_SL"
    ELSE IF time_exit_due(now) THEN "TIME_EXIT"
    ELSE IF ~q_c.success \/ ~q_p.success THEN "RETRY"
    ELSE IF /\ pos_res.success
            /\ ~has_leg(pos_res.positions, call_pid)
            /\ ~has_leg(pos_res.positions, put_pid)
    THEN "MANUAL_EXIT"
    ELSE IF (q_c.ask + q_p.ask - entry_comb) * POSITION_SIZE_BTC * rate
               >= HARD_MAX_LOSS_INR * 100
    THEN "HARD_CAP"
    ELSE IF q_c.ask + q_p.ask < EARLY_EXIT_PREMIUM THEN "EARLY_EXIT"
    ELSE "SLEEP"

\* the branches of one poll with the quotes fetched before the clock is read
monitor_verdict_retry_first(now, q_c, q_p, pos_res, call_pid, put_pid, entry_comb, rate) ==
    IF ~q_c.success \/ ~q_p.success THEN "RETRY"
    ELSE IF time_exit_due(now) THEN "TIME_EXIT"
    ELSE IF /\ pos_res.success
            /\ ~has_leg(pos_res.positions, call_pid)
            /\ ~has_leg(pos_res.positions, put_pid)
    THEN "MANUAL_EXIT"
    ELSE IF (q_c.ask + q_p.ask) * 10 >= entry_comb * SL_COMBINED_MULTIPLIER_X10
    THEN "SOFT_SL"
    ELSE IF (q_c.ask + q_p.ask - entry_comb) * POSITION_SIZE_BTC * rate
               >= HARD_MAX_LOSS_INR * 100
    THEN "HARD_CAP"
    ELSE IF q_c.ask + q_p.ask < EARLY_EXIT_PREMIUM THEN "EARLY_EXIT"
    ELSE "SLEEP"

\* the branches of one poll with a failed quote read as a premium of zero
monitor_verdict_fail_is_zero(now, q_c, q_p, pos_res, call_pid, put_pid, entry_comb, rate) ==
    IF time_exit_due(now) THEN "TIME_EXIT"
    ELSE IF /\ pos_res.success
            /\ ~has_leg(pos_res.positions, call_pid)
            /\ ~has_leg(pos_res.positions, put_pid)
    THEN "MANUAL_EXIT"
    ELSE IF (ask_or_zero(q_c) + ask_or_zero(q_p)) * 10
               >= entry_comb * SL_COMBINED_MULTIPLIER_X10
    THEN "SOFT_SL"
    ELSE IF (ask_or_zero(q_c) + ask_or_zero(q_p) - entry_comb)
               * POSITION_SIZE_BTC * rate >= HARD_MAX_LOSS_INR * 100
    THEN "HARD_CAP"
    ELSE IF ask_or_zero(q_c) + ask_or_zero(q_p) < EARLY_EXIT_PREMIUM
    THEN "EARLY_EXIT"
    ELSE "SLEEP"

\* the branch one pass of the while loop takes, in the order of its tests;
\* premiums in cents, so the loss in INR is compared in hundredths
monitor_verdict(now, q_c, q_p, pos_res, call_pid, put_pid, entry_comb, rate) ==
    IF time_exit_due(now) THEN "TIME_EXIT"
    ELSE IF ~q_c.success \/ ~q_p.success THEN "RETRY"
    ELSE IF /\ pos_res.success
            /\ ~has_leg(pos_res.positions, call_pid)
            /\ ~has_leg(pos_res.positions, put_pid)
    THEN "MANUAL_EXIT"
    ELSE IF (q_c.ask + q_p.ask) * 10 >= entry_comb * SL_COMBINED_MULTIPLIER_X10
    THEN "SOFT_SL"
    ELSE IF (q_c.ask + q_p.ask - entry_comb) * POSITION_SIZE_BTC * rate
               >= HARD_MAX_LOSS_INR * 100
    THEN "HARD_CAP"
    ELSE IF q_c.ask + q_p.ask < EARLY_EXIT_PREMIUM THEN "EARLY_EXIT"
    ELSE "SLEEP"

\* exit_reason written by each terminal branch
reason_of(verdict) ==
    CASE verdict = "TIME_EXIT"   -> "Time Exit (5:15 PM)"
      [] verdict = "MANUAL_EXIT" -> "Manual Exit"
      [] verdict = "SOFT_SL"     -> "SL - Combined 2.5x"
      [] verdict = "HARD_CAP"    -> "Hard Cap Rs.10,000"
      [] verdict = "EARLY_EXIT"  -> "Early Exit - Premium decayed"

\* result.update(...) of the branch taken
monitor_result(verdict, now, q_c, q_p) ==
    [exit_ce       |-> ask_or_zero(q_c),
     exit_pe       |-> ask_or_zero(q_p),
     exit_combined |-> ask_or_zero(q_c) + ask_or_zero(q_p),
     exit_reason   |-> reason_of(verdict),
     exit_time     |-> now]

\* a <= b for times of day
time_le(a, b) == a[1] < b[1] \/ (a[1] = b[1] /\ a[2] <= b[2])

\* r.json().get('result', []) of get_positions: the exchange lists a closed
\* position with size 0 or leaves it out of the list
position_listings(pos) ==
    {pos, [pid \in {p \in DOMAIN pos : pos[p] # 0} |-> pos[pid]]}

\* one pass of the while loop: the clock, the two quotes and the positions
\* are what the poll is answered; a terminal branch writes the result,
\* closes both legs (a manual exit has nothing to close) and leaves the loop
MonitorTick ==
    /\ pc = "monitor"
    /\ \E now \in MonitorTimes, q_c \in QuoteResults, q_p \in QuoteResults,
          pos_res \in {[success |-> FALSE, positions |-> <<>>]}
                     \cup {[success |-> TRUE, positions |-> l] :
                              l \in position_listings(positions)},
          c_out \in CloseOutcomes, p_out \in CloseOutcomes :
          LET b == best_combo[1]
              v == monitor_verdict(now, q_c, q_p, pos_res, b.call_product_id,
                                   b.put_product_id, b.combined_premium,
                                   usd_inr[1])
              ex == close_both_legs([positions |-> positions, orders |-> orders],
                                    b.call_product_id, b.put_product_id,
                                    c_out, p_out)
          IN  /\ tick # None => time_le(tick[1].now, now)
              /\ tick' = Some([now |-> now, cd |-> q_c, pd |-> q_p,
                               pos_res |-> pos_res,
                               closes |->
                                  IF v \in {"RETRY", "SLEEP", "MANUAL_EXIT"}
                                  THEN <<>>
                                  ELSE close_calls(
                                          [positions |-> positions,
                                           orders |-> orders],
                                          b.call_product_id, b.put_product_id,
                                          c_out, p_out)])
              /\ IF v \in {"RETRY", "SLEEP"}
                 THEN /\ pc' = "monitor"
                      /\ UNCHANGED <<exit_data, positions, orders>>
                 ELSE /\ exit_data' = Some(monitor_result(v, now, q_c, q_p))
                      /\ pc' = "entry_tracker"
                      /\ IF v = "MANUAL_EXIT"
                         THEN UNCHANGED <<positions, orders>>
                         ELSE /\ positions' = ex.positions
                              /\ orders' = ex.orders
    /\ UNCHANGED <<config, inputs, exit_run, files, log, is_saturday, usd_inr,
                   scan_state, run_end>>

\* KeyboardInterrupt inside the loop: the result keeps its zero prices
MonitorInterrupt ==
    /\ pc = "monitor"
    /\ \E now \in MonitorTimes :
          /\ tick # None => time_le(tick[1].now, now)
          /\ exit_data' = Some([exit_ce |-> 0, exit_pe |-> 0,
                                exit_combined |-> 0,
                                exit_reason |-> "Interrupted",
                                exit_time |-> now])
    /\ pc' = "entry_tracker"
    /\ UNCHANGED <<config, inputs, exit_run, files, log, is_saturday, usd_inr,
                   scan_state, run_end, positions, orders, tick>>

\* an exception inside the loop body (the position list holds an entry whose
\* size int() cannot read): `except Exception` logs it and sleeps
MonitorError ==
    /\ pc = "monitor"
    /\ log' = log \cup {"[ERROR]"}
    /\ pc' = "monitor_error"
    /\ UNCHANGED <<config, inputs, exit_run, files, is_saturday, usd_inr,
                   scan_state, run_end, live>>

\* time.sleep(MONITOR_INTERVAL) of the exception handler returns: next pass
MonitorErrorWake ==
    /\ pc = "monitor_error"
    /\ pc' = "monitor"
    /\ UNCHANGED <<config, inputs, exit_run, files, log, is_saturday, usd_inr,
                   scan_state, run_end, live>>

\* KeyboardInterrupt during the sleep of the exception handler: the handler
\* is outside the try block, main catches SystemExit and Exception only, so
\* the interrupt ends the process without a result
MonitorErrorInterrupt ==
    /\ pc = "monitor_error"
    /\ run_end' = Some("KeyboardInterrupt")
    /\ pc' = "entry_done"
    /\ UNCHANGED <<config, inputs, exit_run, files, log, is_saturday, usd_inr,
                   scan_state, live>>

\* the account holder closes a leg on the exchange while the monitor runs
ManualClose ==
    /\ pc = "monitor"
    /\ \E pid \in DOMAIN positions :
          /\ positions[pid] # 0
          /\ positions' = Put(positions, pid, 0)
    /\ UNCHANGED <<pc, config, inputs, exit_run, files, log, is_saturday,
                   usd_inr, scan_state, run_end, orders, tick, exit_data>>

\* the dict handed to append_to_tracker after monitor_live returned
live_row ==
    LET b == best_combo[1]
        exit_comb == exit_data[1].exit_ce + exit_data[1].exit_pe
        pnl_usd == (b.combined_premium - exit_comb) * POSITION_SIZE_BTC
    IN  [date           |-> today_str,
         entry_time     |-> now_ist,
         exit_time      |-> exit_data[1].exit_time,
         call_strike    |-> b.call_strike,
         put_strike     |-> b.put_strike,
         entry_ce       |-> b.call_bid,
         entry_pe       |-> b.put_bid,
         entry_combined |-> b.combined_premium,
         exit_ce        |-> exit_data[1].exit_ce,
         exit_pe        |-> exit_data[1].exit_pe,
         exit_combined  |-> exit_comb,
         pnl_usd        |-> pnl_usd,
         pnl_inr        |-> pnl_usd * usd_inr[1],
         exit_reason    |-> exit_data[1].exit_reason,
         mode           |-> "LIVE"]

\* FINAL P&L and append_to_tracker; active_trade.json is left in place
EntryTracker ==
    /\ pc = "entry_tracker"
    /\ tracker' = Append(tracker, live_row)
    /\ run_end' = Some("Done")
    /\ pc' = "entry_done"
    /\ UNCHANGED <<config, inputs, exit_run, active_trade, log, is_saturday,
                   usd_inr, scan_state, live>>

\* append_to_tracker raises: the run ends in the fatal-error handler
EntryTrackerFails ==
    /\ pc = "entry_tracker"
    /\ run_end' = Some("FatalError")
    /\ pc' = "entry_done"
    /\ UNCHANGED <<config, inputs, exit_run, files, log, is_saturday, usd_inr,
                   scan_state, live>>

NextEntry ==
    \/ EntryFetchSpot
    \/ EntryFetchChain
    \/ EntryScanPrimary
    \/ EntryScanFallback
    \/ EntrySkip
    \/ EntrySave
    \/ EntryPlaceCall
    \/ EntryPlacePut
    \/ MonitorTick
    \/ MonitorInterrupt
    \/ MonitorError
    \/ MonitorErrorWake
    \/ MonitorErrorInterrupt
    \/ ManualClose
    \/ EntryTracker
    \/ EntryTrackerFails

SpecEntry == InitEntry /\ [][NextEntry]_vars

-----------------------------------------------------------------------------
(* Claims about the live monitor and the ENTRY run                         *)

\* the terminal transitions in the priority order of the specification
Priority == <<"TIME_EXIT", "MANUAL_EXIT", "SOFT_SL", "HARD_CAP", "EARLY_EXIT">>

\* the combined ask the last poll was answered, when both quotes came
tick_combined == tick[1].cd.ask + tick[1].pd.ask

tick_quoted == tick[1].cd.success /\ tick[1].pd.success

\* whether the condition of a terminal transition holds on the last poll
Holds(t) ==
    CASE t = "TIME_EXIT"   -> time_exit_due(tick[1].now)
      [] t = "MANUAL_EXIT" ->
            /\ tick[1].pos_res.success
            /\ \A pid \in {best_combo[1].call_product_id,
                           best_combo[1].put_product_id} :
                  \/ pid \notin DOMAIN tick[1].pos_res.positions
                  \/ tick[1].pos_res.positions[pid] = 0
      [] t = "SOFT_SL"     ->
            /\ tick_quoted
            /\ 2 * tick_combined >= 5 * best_combo[1].combined_premium
      [] t = "HARD_CAP"    ->
            /\ tick_quoted
            /\ (tick_combined - best_combo[1].combined_premium) * usd_inr[1]
                  >= 1000000
      [] t = "EARLY_EXIT"  -> tick_quoted /\ tick_combined < 500

HoldingRanks == {i \in DOMAIN Priority : Holds(Priority[i])}

Highest == Priority[CHOOSE i \in HoldingRanks : \A j \in HoldingRanks : i <= j]

ReasonText(t) ==
    CASE t = "TIME_EXIT"   -> "Time Exit (5:15 PM)"
      [] t = "MANUAL_EXIT" -> "Manual Exit"
      [] t = "SOFT_SL"     -> "SL - Combined 2.5x"
      [] t = "HARD_CAP"    -> "Hard Cap Rs.10,000"
      [] t = "EARLY_EXIT"  -> "Early Exit - Premium decayed"

MonitorExited ==
    /\ exit_data # None
    /\ exit_data[1].exit_reason # "Interrupted"

\* C20: on every poll of the live monitor the terminal transitions are taken
\* in the order TIME_EXIT, MANUAL_EXIT, SOFT_SL, HARD_CAP, EARLY_EXIT: a poll
\* on which the monitor exits records the reason of the highest-priority
\* condition that holds on that poll, and a poll on which several conditions
\* hold always ends the monitor with that one reason.
C20_MonitorPriority ==
    /\ MonitorExited =>
          /\ HoldingRanks # {}
          /\ exit_data[1].exit_reason = ReasonText(Highest)
    /\ (tick # None /\ Cardinality(HoldingRanks) >= 2) =>
          /\ pc # "monitor"
          /\ MonitorExited

\* the clock, the stop loss and the hard cap all hold on the exit poll and
\* the monitor left with the time exit
C20_Witness ==
    /\ MonitorExited
    /\ {1, 3, 4} \subseteq HoldingRanks
    /\ exit_data[1].exit_reason = "Time Exit (5:15 PM)"

\* stop loss and hard cap both hold before the exit time: the stop loss wins
C20_WitnessSl ==
    /\ MonitorExited
    /\ HoldingRanks = {3, 4}
    /\ exit_data[1].exit_reason = "SL - Combined 2.5x"

\* positions flat and the premium decayed: the manual exit wins
C20_WitnessManual ==
    /\ MonitorExited
    /\ HoldingRanks = {2, 5}
    /\ exit_data[1].exit_reason = "Manual Exit"

\* both scans ran and neither produced a pair
BothScansEmpty ==
    /\ Scanned("PRIMARY")
    /\ Scanned("FALLBACK")
    /\ best_combo = None

\* C16: when the primary and the fallback scan both yield no pair the day is
\* a no-trade day: the next step of the run is the clean exit (SystemExit
\* with code 0, never the fatal-error ending), and no entry snapshot is
\* written, no order is placed and no ledger row is appended.
C16_NoTradeDay ==
    /\ [](BothScansEmpty =>
             /\ pc \in {"no_pair", "entry_done"}
             /\ active_trade = None
             /\ orders = <<>>
             /\ tracker = <<>>
             /\ pc = "entry_done" => run_end = Some("SystemExit(0)"))
    /\ [][BothScansEmpty =>
             /\ pc' = "entry_done"
             /\ run_end' = Some("SystemExit(0)")
             /\ UNCHANGED <<active_trade, tracker, orders, positions>>]_vars

\* a live Saturday run whose scans looked at pairs and rejected all of them
C16_Witness ==
    /\ BothScansEmpty
    /\ pc = "entry_done"
    /\ ~DRY_RUN /\ is_saturday
    /\ \E i \in 1..Len(scan_log) : scan_log[i].verdict = "SKIP"
    /\ run_end = Some("SystemExit(0)")

-----------------------------------------------------------------------------
(* One day: the ENTRY run followed by the scheduled EXIT run             *)

\* asks of the ticker endpoint on the day that is followed through both runs
DayAsks == {300}

\* a live Saturday ENTRY run starts
InitDay ==
    /\ pc = "entry_start"
    /\ DRY_RUN = FALSE
    /\ today_str = Today
    /\ now_ist = <<3, 30>>
    /\ active_trade = None
    /\ tracker = <<>>
    /\ entry = None
    /\ call_candles = None
    /\ put_candles = None
    /\ intraday = None
    /\ sl_breached = FALSE
    /\ hard_cap_breached = FALSE
    /\ exit_combined = None
    /\ exit_ce = None
    /\ exit_pe = None
    /\ exit_time_str = None
    /\ exit_reason = None
    /\ cd_now = None
    /\ pd_now = None
    /\ current_spot = None
    /\ cd = None
    /\ pd = None
    /\ settlement_spot = None
    /\ fetches = <<>>
    /\ log = {}
    /\ market_asks = DayAsks
    /\ call_resp = None
    /\ put_resp = None
    /\ close_ret = None
    /\ thresholds = None
    /\ env_dry_run = env_of(DRY_RUN)
    /\ is_saturday = TRUE
    /\ usd_inr = Some(100)
    /\ spot_price = None
    /\ chain = None
    /\ all_strikes = <<>>
    /\ atm_index = 0
    /\ best_combo = None
    /\ scan_log = <<>>
    /\ run_end = None
    /\ positions = <<>>
    /\ orders = <<>>
    /\ tick = None
    /\ exit_data = None

\* the ENTRY process has ended and the script is started again with
\* PHASE=EXIT, the same day or a later one: the files and the exchange keep
\* what the ENTRY run left, the locals of the ended process are gone
RunExit ==
    /\ pc = "entry_done"
    /\ pc' = "start"
    /\ today_str' \in {today_str, <<7, 11, 2026>>}
    /\ now_ist' \in NowTimes
    /\ is_saturday' = FALSE
    /\ usd_inr' = None
    /\ spot_price' = None
    /\ chain' = None
    /\ all_strikes' = <<>>
    /\ atm_index' = 0
    /\ best_combo' = None
    /\ scan_log' = <<>>
    /\ run_end' = None
    /\ tick' = None
    /\ exit_data' = None
    /\ log' = {}
    /\ UNCHANGED <<DRY_RUN, inputs, exit_run, files, positions, orders>>

NextDay ==
    \/ NextEntry
    \/ RunExit
    \/ Next

SpecDay == InitDay /\ [][NextDay]_vars

\* two ledger rows are records of the same trade
SameTrade(r, s) ==
    /\ r.date = s.date
    /\ r.entry_time = s.entry_time
    /\ r.call_strike = s.call_strike
    /\ r.put_strike = s.put_strike

\* C11: a trade whose exit the live monitor decided and recorded during the
\* ENTRY run is not evaluated and recorded again by the EXIT run of the same
\* day: the ledger never holds two rows for one trade.
C11_OneRecordPerTrade ==
    \A i, j \in 1..Len(tracker) :
        SameTrade(tracker[i], tracker[j]) => i = j

\* the EXIT run of the same day has loaded the snapshot of a trade that the
\* live monitor already recorded
C11_RecordedTradeLoadedAgain ==
    /\ pc = "step1_call"
    /\ today_str = Today
    /\ Len(tracker) = 1
    /\ tracker[1].mode = "LIVE"
    /\ entry # None
    /\ entry[1].date = tracker[1].date
    /\ entry[1].call_strike = tracker[1].call_strike

-----------------------------------------------------------------------------
(* Claims about the loop of the live monitor                               *)

\* the clock of a poll shows 17:15 or later
ClockReached(now) == now[1] * 60 + now[2] >= 17 * 60 + 15

LastPollFailed == ~tick[1].cd.success \/ ~tick[1].pd.success

\* C21: a poll made once the clock has reached the exit time ends the
\* monitor with the time exit, whatever the quotes, the positions and the
\* thresholds are, and once the monitor has a result nothing changes it.
C21_TimeExitAtExitTime ==
    /\ []((tick # None /\ ClockReached(tick[1].now)) =>
             /\ pc # "monitor"
             /\ exit_data # None
             /\ exit_data[1].exit_reason = "Time Exit (5:15 PM)")
    /\ [][exit_data # None => exit_data' = exit_data]_vars

\* the poll at the exit time got no quote for the call and no position list,
\* and the monitor left with the time exit
C21_Witness ==
    /\ tick # None
    /\ ClockReached(tick[1].now)
    /\ ~tick[1].cd.success
    /\ ~tick[1].pos_res.success
    /\ exit_data # None
    /\ exit_data[1].exit_reason = "Time Exit (5:15 PM)"
    /\ pc = "entry_done"

\* a pass of the loop that reads the clock at or after the exit time
MonitorTickDue ==
    /\ MonitorTick
    /\ tick' # None
    /\ ClockReached(tick'[1].now)

\* a live Saturday ENTRY run with a clock that reaches the exit time: the
\* sleep of the exception handler returns, and passes of the loop at or
\* after the exit time keep coming
SpecEntryFair ==
    /\ InitDay
    /\ [][NextEntry]_vars
    /\ WF_vars(MonitorErrorWake)
    /\ SF_vars(MonitorTickDue)

\* C22: with a clock that reaches the exit time, a monitor that was started
\* eventually returns a result, whatever quote failures, position failures
\* and caught exceptions its polls meet; the one other way out of the loop
\* is an interrupt that ends the process.
C22_MonitorReturns ==
    (pc = "monitor") ~> (exit_data # None \/ run_end = Some("KeyboardInterrupt"))

\* the monitor returned after a poll without quotes and a caught exception
C22_Witness ==
    /\ exit_data # None
    /\ "[ERROR]" \in log
    /\ tick # None
    /\ LastPollFailed
    /\ exit_data[1].exit_reason = "Time Exit (5:15 PM)"

CloseOrder(tk) == [i \in 1..Len(tk.closes) |-> tk.closes[i].product_id]

BothLegs == <<best_combo[1].call_product_id, best_combo[1].put_product_id>>

\* C23 as stated: on every terminal transition of the monitor close_position
\* was called for the call and for the put before the result was returned.
C23_ClosesOnEveryExit ==
    MonitorExited => CloseOrder(tick[1]) = BothLegs

\* C23 as the code has it: the time exit, the stop loss, the hard cap and the
\* early exit call close_position for the call and then the put before the
\* result is returned; the manual exit calls it for neither leg, both having
\* been seen flat in the position list of that poll, and places no order.
C23_ClosesUnlessManual ==
    /\ [](MonitorExited =>
             IF exit_data[1].exit_reason = "Manual Exit"
             THEN /\ tick[1].closes = <<>>
                  /\ tick[1].pos_res.success
                  /\ \A i \in 1..2 :
                        size_of(tick[1].pos_res.positions, BothLegs[i]) = 0
             ELSE CloseOrder(tick[1]) = BothLegs)
    /\ [][(exit_data = None /\ exit_data' # None
              /\ exit_data'[1].exit_reason = "Manual Exit")
            => UNCHANGED <<orders, positions>>]_vars

\* a stop-loss exit whose two close_position calls both placed an order
C23_Witness ==
    /\ MonitorExited
    /\ exit_data[1].exit_reason = "SL - Combined 2.5x"
    /\ CloseOrder(tick[1]) = BothLegs
    /\ \A i \in 1..2 : tick[1].closes[i].result = "closed_ok"
    /\ Len(orders) = 4

\* a manual exit: both legs were closed by hand, the monitor closed nothing
C23_WitnessManual ==
    /\ MonitorExited
    /\ exit_data[1].exit_reason = "Manual Exit"
    /\ Len(orders) = 2
    /\ \A i \in 1..2 : size_of(positions, BothLegs[i]) = 0

\* C24: a poll before the exit time on which a quote fetch fails changes
\* nothing: the monitor stays in its loop, no result is written, no
\* close_position call is made and no order is placed; the same holds for a
\* pass that ends in the exception handler, whose sleep leads back to the loop.
C24_FailedQuoteNoTransition ==
    /\ [][(/\ pc = "monitor"
           /\ tick' # tick
           /\ ~ClockReached(tick'[1].now)
           /\ (~tick'[1].cd.success \/ ~tick'[1].pd.success))
          => /\ pc' = "monitor"
             /\ tick'[1].closes = <<>>
             /\ UNCHANGED <<exit_data, positions, orders, active_trade,
                            tracker, run_end>>]_vars
    /\ [][(pc = "monitor" /\ pc' = "monitor_error")
          => UNCHANGED <<exit_data, positions, orders, tick, active_trade,
                         tracker, run_end>>]_vars
    /\ [](pc = "monitor" => exit_data = None)

\* the monitor is polling again after a poll at 17:14 got no quote for the put
C24_Witness ==
    /\ pc = "monitor"
    /\ tick # None
    /\ tick[1].now = <<17, 14>>
    /\ tick[1].cd.success
    /\ ~tick[1].pd.success
    /\ exit_data = None
    /\ Len(orders) = 2

\* both legs were sold, so monitor_live was called
MonitorStarted ==
    /\ Len(orders) >= 2
    /\ best_combo # None
    /\ orders[2].product_id = best_combo[1].put_product_id

\* C25: an interrupt arriving at any point of the monitor loop is caught and
\* turned into a result: a run whose monitor was started never ends without
\* a result of the monitor.
C25_InterruptCaught ==
    (pc = "entry_done" /\ MonitorStarted) => exit_data # None

\* the interrupts the loop does catch end it with the reason Interrupted
C25_CaughtInsideTry ==
    /\ exit_data # None
    /\ exit_data[1].exit_reason = "Interrupted"
    /\ pc = "entry_done"

-----------------------------------------------------------------------------
(* close_position on its own                                               *)

\* most close_position calls followed in one run
MaxCloseCalls == 3

\* the two legs close_position is called for
ClosePids == {<<"CE", 7800000>>, <<"PE", 5200000>>}
\* sizes a leg can be held with: short, flat, long
HeldSizes == {-1000, 0, 1000}
\* position lists of the exchange: each leg absent or listed with a size
PositionLists ==
    UNION {[d -> HeldSizes] : d \in SUBSET ClosePids}

\* the exchange in any state, live mode, no call made yet
InitClose ==
    /\ pc = "close"
    /\ DRY_RUN = FALSE
    /\ today_str = Today
    /\ now_ist = <<17, 15>>
    /\ active_trade = None
    /\ tracker = <<>>
    /\ entry = None
    /\ call_candles = None
    /\ put_candles = None
    /\ intraday = None
    /\ sl_breached = FALSE
    /\ hard_cap_breached = FALSE
    /\ exit_combined = None
    /\ exit_ce = None
    /\ exit_pe = None
    /\ exit_time_str = None
    /\ exit_reason = None
    /\ cd_now = None
    /\ pd_now = None
    /\ current_spot = None
    /\ cd = None
    /\ pd = None
    /\ settlement_spot = None
    /\ fetches = <<>>
    /\ log = {}
    /\ market_asks = {}
    /\ call_resp = None
    /\ put_resp = None
    /\ close_ret = None
    /\ thresholds = None
    /\ env_dry_run = env_of(DRY_RUN)
    /\ is_saturday = TRUE
    /\ usd_inr = None
    /\ spot_price = None
    /\ chain = None
    /\ all_strikes = <<>>
    /\ atm_index = 0
    /\ best_combo = None
    /\ scan_log = <<>>
    /\ run_end = None
    /\ positions \in PositionLists
    /\ orders = <<>>
    /\ tick = None
    /\ exit_data = None

\* one call close_position(product_id, POSITION_SIZE_LOTS): get_positions
\* fails, or the list is read and the order, if one is due, is refused or
\* filled
CloseCall ==
    /\ pc = "close"
    /\ IF close_ret = None THEN TRUE ELSE close_ret[1].call < MaxCloseCalls
    /\ \E pid \in ClosePids, outcome \in CloseOutcomes :
          LET ex == [positions |-> positions, orders |-> orders]
              after == close_position(ex, pid, POSITION_SIZE_LOTS, outcome)
          IN  /\ close_ret' =
                    Some([call |-> IF close_ret = None THEN 1
                                   ELSE close_ret[1].call + 1,
                          product_id |-> pid,
                          fetched |-> outcome # "NO_POSITIONS",
                          result |-> close_result(ex, pid, outcome)])
              /\ positions' = after.positions
              /\ orders' = after.orders
    /\ UNCHANGED <<pc, config, market_asks, call_resp, put_resp, env_dry_run,
                   thresholds, exit_run, files, log, is_saturday, usd_inr,
                   scan_state, run_end, tick, exit_data>>

NextClose == CloseCall

SpecClose == InitClose /\ [][NextClose]_vars

\* C28: a close_position call that reads the position list and finds the
\* product absent or of size 0 returns success (already closed) and places
\* no order, so any number of calls on a closed leg leaves it flat.
C28_CloseFlatIsNoop ==
    /\ [][(close_ret' # close_ret
             /\ close_ret'[1].fetched
             /\ size_of(positions, close_ret'[1].product_id) = 0)
          => /\ close_ret'[1].result = "already_closed"
             /\ orders' = orders
             /\ positions' = positions]_vars
    /\ [][\A pid \in ClosePids :
             size_of(positions, pid) = 0 => size_of(positions', pid) = 0]_vars

\* the third call in a row on a flat call leg, each answered already closed,
\* with the put still held
C28_Witness ==
    /\ close_ret # None
    /\ close_ret[1].call = 3
    /\ close_ret[1].product_id = <<"CE", 7800000>>
    /\ close_ret[1].result = "already_closed"
    /\ size_of(positions, <<"CE", 7800000>>) = 0
    /\ size_of(positions, <<"PE", 5200000>>) # 0
    /\ orders = <<>>

-----------------------------------------------------------------------------
(* The ENTRY run for every setting of the DRY_RUN variable                 *)

\* unset, 'true', 'false', 'False' and '0'
DryRunEnvs ==
    {None, Some(<<"t", "r", "u", "e">>), Some(<<"f", "a", "l", "s", "e">>),
     Some(<<"F", "a", "l", "s", "e">>), Some(<<"0">>)}

\* a Saturday ENTRY run starts, DRY_RUN read from the environment
InitEntryEnv ==
    /\ pc = "entry_start"
    /\ env_dry_run \in DryRunEnvs
    /\ DRY_RUN = dry_run_of(env_dry_run)
    /\ today_str = Today
    /\ now_ist = <<3, 30>>
    /\ active_trade = None
    /\ tracker = <<>>
    /\ entry = None
    /\ call_candles = None
    /\ put_candles = None
    /\ intraday = None
    /\ sl_breached = FALSE
    /\ hard_cap_breached = FALSE
    /\ exit_combined = None
    /\ exit_ce = None
    /\ exit_pe = None
    /\ exit_time_str = None
    /\ exit_reason = None
    /\ cd_now = None
    /\ pd_now = None
    /\ current_spot = None
    /\ cd = None
    /\ pd = None
    /\ settlement_spot = None
    /\ fetches = <<>>
    /\ log = {}
    /\ market_asks = DayAsks
    /\ call_resp = None
    /\ put_resp = None
    /\ close_ret = None
    /\ thresholds = None
    /\ is_saturday = TRUE
    /\ usd_inr = Some(100)
    /\ spot_price = None
    /\ chain = None
    /\ all_strikes = <<>>
    /\ atm_index = 0
    /\ best_combo = None
    /\ scan_log = <<>>
    /\ run_end = None
    /\ positions = <<>>
    /\ orders = <<>>
    /\ tick = None
    /\ exit_data = None

SpecEntryEnv == InitEntryEnv /\ [][NextEntry]_vars

\* the variable is set to 'false' in some spelling of its letters
ExplicitlyFalse ==
    env_dry_run \in {Some(<<"f", "a", "l", "s", "e">>),
                     Some(<<"F", "a", "l", "s", "e">>)}

\* C29: with DRY_RUN enabled, which it is unless the variable is set to
\* 'false', no order is placed and no position is closed on any path of the
\* run: the order placement, the rollback and the monitor with its closing
\* calls are reached only when the variable is explicitly 'false'.
C29_DryRunPlacesNoOrder ==
    /\ [](DRY_RUN = ~ExplicitlyFalse)
    /\ [](DRY_RUN =>
             /\ orders = <<>>
             /\ positions = <<>>
             /\ tick = None
             /\ exit_data = None
             /\ pc \notin {"place_call", "place_put", "monitor",
                           "monitor_error", "entry_tracker"})
    /\ [][orders' # orders => ExplicitlyFalse]_vars

\* a Saturday run with the variable unset saved its snapshot and ended
\* without an order
C29_Witness ==
    /\ env_dry_run = None
    /\ DRY_RUN
    /\ is_saturday
    /\ pc = "entry_done"
    /\ active_trade # None
    /\ run_end = Some("Done")
    /\ orders = <<>>

\* the variable set to 'False': both legs were sold
C29_WitnessLive ==
    /\ env_dry_run = Some(<<"F", "a", "l", "s", "e">>)
    /\ ~DRY_RUN
    /\ Len(orders) >= 2

-----------------------------------------------------------------------------
(* Provenance of estimated decisions                                       *)

\* the decision is a breach found by the spot intrinsic fallback
EstimatedTier3 ==
    /\ Decided
    /\ current_spot # None
    /\ sl_breached

\* the decision is a non-breach exit that the zero-value guard priced with a
\* nonzero intrinsic estimate
EstimatedByGuard ==
    /\ Decided
    /\ BothLegsZero
    /\ settlement_spot # None
    /\ exit_combined # Some(0)

\* the exit reasons of decisions priced from candles or from live quotes
ObservedReasons ==
    {"SL - Combined 2.5x (intraday)", "Hard Cap Rs.10,000 (intraday)",
     "SL - Combined 2.5x (live price fallback)", "Time Exit (5:15 PM)",
     "Early Exit - Premium decayed"}

\* C27: every decision whose exit premium was estimated from spot intrinsic
\* values, a tier-3 breach or a non-breach exit priced by the zero-value guard
\* with a nonzero estimate, carries an exit reason that no decision priced
\* from candles or live quotes carries.
C27_EstimateCarriesProvenance ==
    (EstimatedTier3 \/ EstimatedByGuard) =>
       /\ exit_reason # None
       /\ exit_reason[1] \notin ObservedReasons

\* the tier-3 breach alone does carry its own reason
C27_Tier3Part ==
    EstimatedTier3 =>
       exit_reason = Some("SL - Combined 2.5x (estimated from settlement spot)")

\* a decision priced from two live quotes above zero with the reason that
\* the guard's nonzero estimates are recorded with
C27_ObservedTimeExit ==
    /\ pc = "cleanup"
    /\ ~sl_breached /\ ~hard_cap_breached
    /\ cd # None /\ pd # None
    /\ cd[1].success /\ pd[1].success
    /\ cd[1].ask > 0 /\ pd[1].ask > 0
    /\ settlement_spot = None
    /\ exit_reason = Some("Time Exit (5:15 PM)")
    /\ tracker[Len(tracker)].exit_reason = "Time Exit (5:15 PM)"

-----------------------------------------------------------------------------
(* Every EXIT evaluation ends with one decision                            *)

\* how far the EXIT run has come
ExitRank ==
    CASE pc = "start" -> 0 [] pc = "step1_call" -> 1 [] pc = "step1_put" -> 2
      [] pc = "tier" -> 3 [] pc = "tier3" -> 4 [] pc = "step2" -> 5
      [] pc = "retry" -> 6 [] pc = "price" -> 7 [] pc = "guard" -> 8
      [] pc = "final" -> 9 [] pc = "cleanup" -> 10 [] pc = "done" -> 11

\* requests for the exit price of the call, first attempt and retry
ExitPriceFetches ==
    Len(SelectSeq(fetches, LAMBDA t : t \in {"exit_call", "retry_call"}))

DecisionDefined ==
    /\ exit_combined # None
    /\ exit_ce # None
    /\ exit_pe # None
    /\ exit_time_str # None
    /\ exit_reason # None

\* C30: every EXIT evaluation of a current-day snapshot terminates, with the
\* exit price fetched at most twice: each step takes the run further, no
\* step before the end is ever blocked, and whatever the candle, quote and
\* spot fetches answer the run reaches its final step with exit combined,
\* exit call, exit put, exit time and exit reason all defined and writes
\* them as one ledger row, never a second.
C30_OneDefinedDecision ==
    /\ [](pc \in {"final", "cleanup"} => DecisionDefined)
    /\ [][ExitRank' > ExitRank]_vars
    /\ [](pc # "done" => ENABLED Next)
    /\ [](ExitPriceFetches <= 2)
    /\ [](pc = "final" => ENABLED FinalAppend)
    /\ [](Len(tracker) <= 1)
    /\ [](pc = "cleanup" =>
             /\ Len(tracker) = 1
             /\ tracker[1].exit_combined = exit_combined[1]
             /\ tracker[1].exit_ce = exit_ce[1]
             /\ tracker[1].exit_pe = exit_pe[1]
             /\ tracker[1].exit_time = exit_time_str[1]
             /\ tracker[1].exit_reason = exit_reason[1])

\* an evaluation in which the candle request raised and no quote and no spot
\* price could be fetched, the exit price having been tried twice, ended
\* with its one row
C30_Witness ==
    /\ pc = "done"
    /\ Len(tracker) = 1
    /\ active_trade = None
    /\ intraday = None
    /\ current_spot = None
    /\ Fetched("spot")
    /\ ExitPriceFetches = 2
    /\ ~cd[1].success /\ ~pd[1].success
    /\ settlement_spot = None
    /\ DecisionDefined

(***************************************************************************)
(* Python floats.                                                          *)
(*                                                                         *)
(* A price, a rate or a threshold of the script is an IEEE-754 binary64    *)
(* number.  A positive double is the record [m, e] of value m * 2^e: m is  *)
(* the significand as a sequence of bits, least significant first, with no *)
(* leading zero and at most 53 bits; zero has the empty significand.       *)
(* Every operation computes the exact result and rounds it to 53 bits,     *)
(* ties to even (the magnitudes of the script are far from the subnormal   *)
(* and the overflow range).                                                *)
(***************************************************************************)
MANT_DIG == 53

strip(b) ==
    LET ones == {i \in 1..Len(b) : b[i] = 1}
    IN  IF ones = {} THEN <<>>
        ELSE SubSeq(b, 1, CHOOSE i \in ones : \A j \in ones : j <= i)

RECURSIVE nat_bits(_)
nat_bits(n) == IF n = 0 THEN <<>> ELSE <<n % 2>> \o nat_bits(n \div 2)

zeros(k) == [i \in 1..k |-> 0]

bit(b, i) == IF i <= Len(b) THEN b[i] ELSE 0

max(a, b) == IF a >= b THEN a ELSE b

\* the carry into position i of a + b: some lower position generates a carry
\* and every position between propagates it
carry_in(a, b, i) ==
    \E j \in 1..(i - 1) :
        /\ bit(a, j) + bit(b, j) = 2
        /\ \A k \in (j + 1)..(i - 1) : bit(a, k) + bit(b, k) >= 1

add_bits(a, b) ==
    strip([i \in 1..(max(Len(a), Len(b)) + 1) |->
              (bit(a, i) + bit(b, i) + IF carry_in(a, b, i) THEN 1 ELSE 0) % 2])

\* the borrow into position i of a - b
borrow_in(a, b, i) ==
    \E j \in 1..(i - 1) :
        /\ bit(a, j) < bit(b, j)
        /\ \A k \in (j + 1)..(i - 1) : bit(a, k) <= bit(b, k)

\* a - b for a >= b
sub_bits(a, b) ==
    strip([i \in 1..Len(a) |->
              (bit(a, i) - bit(b, i) - IF borrow_in(a, b, i) THEN 1 ELSE 0) % 2])

ge_bits(a, b) ==
    \A i \in 1..max(Len(a), Len(b)) :
        bit(a, i) < bit(b, i)
            => \E j \in (i + 1)..max(Len(a), Len(b)) :
                   /\ bit(a, j) > bit(b, j)
                   /\ \A k \in (j + 1)..max(Len(a), Len(b)) :
                          bit(a, k) = bit(b, k)

RECURSIVE mul_from(_, _, _)
mul_from(a, b, i) ==
    IF i > Len(b) THEN <<>>
    ELSE IF b[i] = 1
         THEN add_bits(zeros(i - 1) \o a, mul_from(a, b, i + 1))
         ELSE mul_from(a, b, i + 1)

mul_bits(a, b) == strip(mul_from(a, b, 1))

\* the nearest double of the exact value b * 2^e, ties to even
round_to_double(b, e) ==
    LET d == Len(b) - MANT_DIG
    IN  IF d <= 0 THEN [m |-> b, e |-> e]
        ELSE LET keep   == SubSeq(b, d + 1, Len(b))
                 sticky == \E i \in 1..(d - 1) : b[i] = 1
                 up     == b[d] = 1 /\ (sticky \/ keep[1] = 1)
             IN  [m |-> IF up THEN add_bits(keep, <<1>>) ELSE keep,
                  e |-> e + d]

\* the eight bits of q, least significant first
chunk_bits(q) == [i \in 1..8 |-> (q \div 2^(i - 1)) % 2]

\* the bits of r / D after the binary point, least significant first, eight
\* at a time (one step of the long division), until more than MANT_DIG
\* significant bits are known or the division ends; `have` counts the
\* significant bits known so far
RECURSIVE frac_bits(_, _, _)
frac_bits(r, D, have) ==
    IF r = 0 \/ have > MANT_DIG THEN [bits |-> <<>>, rem |-> r]
    ELSE LET q    == (r * 2^8) \div D
             rest == frac_bits((r * 2^8) % D, D,
                               IF have = 0 THEN Len(nat_bits(q))
                               ELSE have + 8)
         IN  [bits |-> rest.bits \o chunk_bits(q), rem |-> rest.rem]

\* float('n/D'): the double nearest to the quotient of two small naturals; a
\* remainder left by the division is one more bit below the last
from_ratio(n, D) ==
    LET whole == nat_bits(n \div D)
        frac  == frac_bits(n % D, D, Len(whole))
        exact == strip(frac.bits \o whole)
        k     == Len(frac.bits)
    IN  IF frac.rem = 0 THEN round_to_double(exact, 0 - k)
        ELSE round_to_double(<<1>> \o exact, 0 - k - 1)

from_int(n) == from_ratio(n, 1)

align(a, b) ==
    LET e == IF a.e <= b.e THEN a.e ELSE b.e
    IN  [a |-> IF a.m = <<>> THEN <<>> ELSE zeros(a.e - e) \o a.m,
         b |-> IF b.m = <<>> THEN <<>> ELSE zeros(b.e - e) \o b.m,
         e |-> e]

float_add(a, b) ==
    LET al == align(a, b) IN round_to_double(add_bits(al.a, al.b), al.e)

\* a - b for a >= b
float_sub(a, b) ==
    LET al == align(a, b) IN round_to_double(sub_bits(al.a, al.b), al.e)

float_mul(a, b) == round_to_double(mul_bits(a.m, b.m), a.e + b.e)

\* a / b for b a power of two: the quotient is exact
float_div_pow2(a, b) == [m |-> a.m, e |-> a.e - b.e]

float_ge(a, b) == LET al == align(a, b) IN ge_bits(al.a, al.b)

SL_COMBINED_MULTIPLIER == from_ratio(SL_COMBINED_MULTIPLIER_X10, 10)

position_size_btc == from_ratio(POSITION_SIZE_LOTS, 1000)

\* float(q.get('best_ask')) of a quote given in tenths of a dollar
float_of_tenths(t) == from_ratio(t, 10)

\* the threshold tests of monitor_live on one poll; the exchange rate is a
\* whole number of rupees
monitor_threshold(cur_combined, entry_comb, rate) ==
    IF float_ge(cur_combined, float_mul(entry_comb, SL_COMBINED_MULTIPLIER))
    THEN "SOFT_SL"
    ELSE IF /\ float_ge(cur_combined, entry_comb)
            /\ float_ge(float_mul(float_mul(float_sub(cur_combined, entry_comb),
                                            position_size_btc),
                                  from_int(rate)),
                        from_int(HARD_MAX_LOSS_INR))
         THEN "HARD_CAP"
         ELSE "NONE"

\* the threshold tests of the EXIT phase on the intraday peak
evaluator_threshold(worst_combined, entry_comb, rate) ==
    LET sl_lvl  == float_mul(entry_comb, SL_COMBINED_MULTIPLIER)
        cap_lvl == float_add(float_div_pow2(from_ratio(HARD_MAX_LOSS_INR, rate),
                                            position_size_btc),
                             entry_comb)
    IN  IF float_ge(worst_combined, sl_lvl) THEN "SOFT_SL"
        ELSE IF float_ge(worst_combined, cap_lvl) THEN "HARD_CAP"
        ELSE "NONE"

(***************************************************************************)
(* The threshold tests on their own.                                       *)
(*                                                                         *)
(* Specification SpecThresholds gives one entry snapshot and one observed  *)
(* pair of premiums to the two places of the script that test the stop     *)
(* loss and the hard cap: monitor_live on a poll, and the EXIT phase on    *)
(* the intraday peak.  Premiums are quoted to a tenth of a dollar and are  *)
(* written here in tenths; the exchange rate is a whole number of rupees   *)
(* (84 is the default of get_usd_inr).                                     *)
(***************************************************************************)
ThresholdEntryCe == {102, 300}
ThresholdEntryPe == {905, 300}
ThresholdCe == {1128, 1000, 450, 1300}
ThresholdPe == {1129, 1007, 450, 1300}
ThresholdRates == {80, 84, 100}

ThresholdCases ==
    [entry_ce : ThresholdEntryCe, entry_pe : ThresholdEntryPe,
     usd_to_inr : ThresholdRates, ce : ThresholdCe, pe : ThresholdPe,
     monitor : {None}, evaluator : {None}]

\* best_combo['combined_premium'] = cb + pb, saved as entry_combined
entry_combined_of(t) ==
    float_add(float_of_tenths(t.entry_ce), float_of_tenths(t.entry_pe))

\* cur_combined = cur_ce + cur_pe of a poll, and call_candles[ts] +
\* put_candles[ts] of a candle, for the same two premiums
combined_of(t) == float_add(float_of_tenths(t.ce), float_of_tenths(t.pe))
InitThresholds ==
    /\ pc = "thresholds"
    /\ DRY_RUN = FALSE
    /\ today_str = Today
    /\ now_ist = <<17, 15>>
    /\ active_trade = None
    /\ tracker = <<>>
    /\ entry = None
    /\ call_candles = None
    /\ put_candles = None
    /\ intraday = None
    /\ sl_breached = FALSE
    /\ hard_cap_breached = FALSE
    /\ exit_combined = None
    /\ exit_ce = None
    /\ exit_pe = None
    /\ exit_time_str = None
    /\ exit_reason = None
    /\ cd_now = None
    /\ pd_now = None
    /\ current_spot = None
    /\ cd = None
    /\ pd = None
    /\ settlement_spot = None
    /\ fetches = <<>>
    /\ log = {}
    /\ market_asks = {}
    /\ call_resp = None
    /\ put_resp = None
    /\ close_ret = None
    /\ thresholds \in ThresholdCases
    /\ env_dry_run = env_of(DRY_RUN)
    /\ is_saturday = TRUE
    /\ usd_inr = None
    /\ spot_price = None
    /\ chain = None
    /\ all_strikes = <<>>
    /\ atm_index = 0
    /\ best_combo = None
    /\ scan_log = <<>>
    /\ run_end = None
    /\ positions = <<>>
    /\ orders = <<>>
    /\ tick = None
    /\ exit_data = None

\* monitor_live tests the premium of a poll
MonitorThresholds ==
    /\ pc = "thresholds"
    /\ thresholds.monitor = None
    /\ thresholds' =
           [thresholds EXCEPT
               !.monitor = Some(monitor_threshold(combined_of(thresholds),
                                                  entry_combined_of(thresholds),
                                                  thresholds.usd_to_inr))]
    /\ UNCHANGED <<pc, config, market_asks, call_resp, put_resp, close_ret,
                   env_dry_run, exit_run, files, log, is_saturday, usd_inr,
                   scan_state, run_end, live>>

\* the EXIT phase tests the same premium as the peak of the day
EvaluatorThresholds ==
    /\ pc = "thresholds"
    /\ thresholds.evaluator = None
    /\ thresholds' =
           [thresholds EXCEPT
               !.evaluator = Some(evaluator_threshold(combined_of(thresholds),
                                                      entry_combined_of(thresholds),
                                                      thresholds.usd_to_inr))]
    /\ UNCHANGED <<pc, config, market_asks, call_resp, put_resp, close_ret,
                   env_dry_run, exit_run, files, log, is_saturday, usd_inr,
                   scan_state, run_end, live>>

NextThresholds == MonitorThresholds \/ EvaluatorThresholds

SpecThresholds == InitThresholds /\ [][NextThresholds]_vars

BothClassified == thresholds.monitor # None /\ thresholds.evaluator # None

\* C26: for the same entry snapshot and the same observed combined premium,
\* the live monitor and the evaluator's tier 1 give the same classification:
\* SOFT_SL, HARD_CAP or no breach.
C26_SameClassification ==
    BothClassified => thresholds.monitor = thresholds.evaluator

\* both classify a premium above the hard cap and below the stop loss as
\* HARD_CAP
C26_Witness ==
    /\ BothClassified
    /\ thresholds.monitor = Some("HARD_CAP")
    /\ thresholds.evaluator = Some("HARD_CAP")

\* the premium exactly at hard_cap_level: the evaluator's level is reached,
\* the monitor's loss in rupees is one rounding short of the cap
C26_AtTheLevel ==
    /\ BothClassified
    /\ thresholds.monitor = Some("NONE")
    /\ thresholds.evaluator = Some("HARD_CAP")

-----------------------------------------------------------------------------
(* The snapshot and the ledger at the end of the EXIT phase                *)

\* the snapshot loaded by this run is of today and its file is gone
CurrentDayRemoved ==
    /\ entry # None
    /\ ~is_stale(entry[1].date, today_str)
    /\ active_trade = None

\* the ledger holds the row of the loaded snapshot
LedgerHasRow == \E i \in 1..Len(tracker) : tracker[i] = tracker_row

\* C31: the snapshot of the current day is deleted only after its P&L record
\* has been appended to the ledger: whenever it is gone the record is there,
\* the only step that removes it is the cleanup that follows the append, and
\* a ledger write that fails leaves the snapshot in place.
C31_DeletedOnlyAfterRecorded ==
    /\ [](CurrentDayRemoved => LedgerHasRow)
    /\ [][(/\ active_trade # None
           /\ ~is_stale(active_trade[1].date, today_str)
           /\ active_trade' = None)
             => (pc = "cleanup" /\ LedgerHasRow /\ tracker' = tracker)]_vars
    /\ [][(pc = "final" /\ tracker' = tracker)
             => (active_trade' = active_trade /\ active_trade # None)]_vars

\* the run ended with the row written and the snapshot deleted
C31_Witness ==
    /\ pc = "done"
    /\ CurrentDayRemoved
    /\ Len(tracker) = 1

\* the ledger write failed after a decision was reached: the run ended with
\* no row and the snapshot still on disk
C31_WitnessWriteFailed ==
    /\ pc = "done"
    /\ exit_reason # None
    /\ tracker = <<>>
    /\ active_trade # None
    /\ active_trade = entry

-----------------------------------------------------------------------------
(* The two orders of a live entry                                          *)

CallLeg == best_combo[1].call_product_id
PutLeg == best_combo[1].put_product_id

NoLegOpen == \A pid \in DOMAIN positions : positions[pid] = 0

BothLegsOpen == has_leg(positions, CallLeg) /\ has_leg(positions, PutLeg)

\* C32: live entry is all-or-nothing: the put order is placed only after the
\* call order succeeded, and the order step ends either with both legs open
\* and the monitor started, or with no leg open and the run over, whatever
\* the orders and the rollback close were answered.
C32_AllOrNothing ==
    /\ [][pc = "place_call" =>
             \/ pc' = "place_put" /\ has_leg(positions', CallLeg)
             \/ pc' = "entry_done" /\ NoLegOpen']_vars
    /\ [][pc = "place_put" =>
             \/ pc' = "monitor" /\ BothLegsOpen'
             \/ pc' = "entry_done" /\ NoLegOpen' /\ exit_data' = None]_vars

\* both orders went through and the monitor starts on two open legs
C32_Witness ==
    /\ pc = "monitor"
    /\ tick = None
    /\ BothLegsOpen
    /\ Len(orders) = 2

\* the put order was refused and so was the rollback: the run is over with
\* the call leg short and nothing watching it
C32_NakedCall ==
    /\ pc = "entry_done"
    /\ run_end = Some("FatalError")
    /\ best_combo # None
    /\ Len(orders) = 1
    /\ size_of(positions, CallLeg) = -POSITION_SIZE_LOTS
    /\ ~has_leg(positions, PutLeg)
    /\ tick = None /\ exit_data = None

-----------------------------------------------------------------------------
(* Unobserved premiums in the result of the monitor                        *)

\* the monitor returned exit premiums of 0 that no quote reported: it was
\* interrupted, or both quote fetches of the time exit failed
UnobservedZero ==
    IF exit_data = None THEN FALSE
    ELSE /\ exit_data[1].exit_ce = 0
         /\ exit_data[1].exit_pe = 0
         /\ IF exit_data[1].exit_reason = "Interrupted" THEN TRUE
            ELSE IF tick = None THEN FALSE
            ELSE ~tick[1].cd.success /\ ~tick[1].pd.success

\* a ledger row with exit combined premium 0 and the whole entry premium as
\* its P&L
FullPremiumRow(r) ==
    /\ r.exit_combined = 0
    /\ r.pnl_usd = r.entry_combined * POSITION_SIZE_BTC

\* C33: a result of the monitor whose exit premiums are 0 because the quotes
\* of the time exit failed, or because the monitor was interrupted, never
\* becomes a ledger record with exit combined premium 0 and the full entry
\* premium as P&L.
C33_UnobservedNeverRecordedAsZero ==
    UnobservedZero => \A i \in 1..Len(tracker) : ~FullPremiumRow(tracker[i])

\* the monitor handed a result with unobserved zero premiums to its caller
C33_Witness ==
    /\ pc = "entry_tracker"
    /\ UnobservedZero
    /\ tracker = <<>>

\* the time exit got no quote and the ledger shows the whole premium earned
C33_TimeExitRecordedAsZero ==
    /\ pc = "entry_done"
    /\ UnobservedZero
    /\ exit_data[1].exit_reason = "Time Exit (5:15 PM)"
    /\ Len(tracker) = 1
    /\ FullPremiumRow(tracker[1])
    /\ tracker[1].exit_reason = "Time Exit (5:15 PM)"

-----------------------------------------------------------------------------
(* The side of the closing order                                           *)

\* the call that just returned placed its order
ClosedNow == close_ret' # close_ret /\ close_ret'[1].result = "closed_ok"

\* C34: the order close_position places for a position that is not flat is
\* on the side opposite to the position (sell for a long of positive size,
\* buy for a short of negative size), so a close that goes through never
\* leaves the position larger in absolute size.
C34_CloseOppositeSide ==
    [][ClosedNow =>
          LET pid  == close_ret'[1].product_id
              held == size_of(positions, pid)
          IN  /\ Len(orders') = Len(orders) + 1
              /\ orders'[Len(orders')].product_id = pid
              /\ orders'[Len(orders')].side = (IF held > 0 THEN "sell" ELSE "buy")
              /\ abs(size_of(positions', pid)) <= abs(held)]_vars

\* a closing order went through for a leg that was held
C34_Witness ==
    /\ close_ret # None
    /\ close_ret[1].call = 1
    /\ close_ret[1].result = "closed_ok"
    /\ Len(orders) = 1
    /\ orders[1].product_id = close_ret[1].product_id

\* the short call of 1000 lots after its close: a second sell, 2000 short
C34_ShortDoubled ==
    /\ close_ret # None
    /\ close_ret[1].call = 1
    /\ close_ret[1].result = "closed_ok"
    /\ orders = <<[product_id |-> <<"CE", 7800000>>, size |-> 1000,
                   side |-> "sell"]>>
    /\ size_of(positions, <<"CE", 7800000>>) = -2000

-----------------------------------------------------------------------------
(* The offsets the strike scan reads at                                    *)

\* the range a scan was asked for
requested_lo(label) == IF label = "PRIMARY" THEN 13 ELSE 10
requested_hi(label) == IF label = "PRIMARY" THEN 15 ELSE 12

\* the two scans of the script: every pair evaluated lies inside the list
\* and inside 13..15 (primary) or 10..12 (fallback)
C35_AtCallSites ==
    \A i \in 1..Len(scan_log) :
        scan_log[i].verdict # "HEADER" =>
           /\ atm_index - scan_log[i].pe_d >= 1
           /\ atm_index + scan_log[i].ce_d <= Len(all_strikes)
           /\ scan_log[i].ce_d \in
                 requested_lo(scan_log[i].label)..requested_hi(scan_log[i].label)
           /\ scan_log[i].pe_d \in
                 requested_lo(scan_log[i].label)..requested_hi(scan_log[i].label)

\* a list with 13 strikes above the money and 14 below: the primary scan
\* stops at the ends of the list, and its last pair reads the first strike
C35_ClippedAtCallSite ==
    /\ MaxCe = 13
    /\ MaxPe = 14
    /\ evaluated("PRIMARY") = <<<<13, 13>>, <<13, 14>>>>
    /\ atm_index - 14 = 1
    /\ atm_index + 13 = Len(all_strikes)

(***************************************************************************)
(* run_strike_scan on its own, for every strike list of up to MaxSide      *)
(* strikes on each side of the money and every range of distances from 0   *)
(* to one more than MaxSide; the label of a scan is the range it was asked *)
(* for.                                                                    *)
(***************************************************************************)
MaxSide == 3

RangeChains ==
    {[below |-> b, above |-> a, ce_far |-> "A", ce_near |-> "A",
      pe_far |-> "A", pe_near |-> "A", special |-> {}] :
        b \in 0..MaxSide, a \in 0..MaxSide}

InitRange ==
    /\ pc = "scan_range"
    /\ DRY_RUN = TRUE
    /\ today_str = Today
    /\ now_ist = <<3, 30>>
    /\ active_trade = None
    /\ tracker = <<>>
    /\ entry = None
    /\ call_candles = None
    /\ put_candles = None
    /\ intraday = None
    /\ sl_breached = FALSE
    /\ hard_cap_breached = FALSE
    /\ exit_combined = None
    /\ exit_ce = None
    /\ exit_pe = None
    /\ exit_time_str = None
    /\ exit_reason = None
    /\ cd_now = None
    /\ pd_now = None
    /\ current_spot = None
    /\ cd = None
    /\ pd = None
    /\ settlement_spot = None
    /\ fetches = <<>>
    /\ log = {}
    /\ market_asks = Asks
    /\ call_resp = None
    /\ put_resp = None
    /\ close_ret = None
    /\ thresholds = None
    /\ env_dry_run = env_of(DRY_RUN)
    /\ is_saturday = FALSE
    /\ usd_inr = Some(100)
    /\ chain \in {Some(c) : c \in RangeChains}
    /\ spot_price = Some(6500000)
    /\ all_strikes = strikes_of(chain[1])
    /\ atm_index = index_of_nearest(all_strikes, spot_price[1])
    /\ best_combo = None
    /\ scan_log = <<>>
    /\ run_end = None
    /\ positions = <<>>
    /\ orders = <<>>
    /\ tick = None
    /\ exit_data = None

\* run_strike_scan(range_start, range_end, label, fh) for any range
ScanAnyRange ==
    /\ pc = "scan_range"
    /\ \E range_start \in 0..(MaxSide + 1), range_end \in 0..(MaxSide + 1) :
          LET r == run_strike_scan(chain[1], all_strikes, atm_index,
                                   range_start, range_end,
                                   <<range_start, range_end>>)
          IN  /\ best_combo' = r.best
              /\ scan_log' = r.lines
    /\ pc' = "scan_done"
    /\ UNCHANGED <<config, inputs, exit_run, live, active_trade, tracker, log,
                   is_saturday, usd_inr, spot_price, chain, all_strikes,
                   atm_index, run_end>>

NextRange == ScanAnyRange

SpecRange == InitRange /\ [][NextRange]_vars

\* C35: the strike scan never reads outside the strike list: for every
\* strike count, position of the ATM strike and range of distances, every
\* pair it evaluates has its put strike at or after the first strike of the
\* list and its call strike at or before the last, and both offsets are
\* inside the range the scan was asked for (positions counted from 1).
C35_ScanInsideList ==
    \A i \in 1..Len(scan_log) :
        scan_log[i].verdict # "HEADER" =>
           /\ atm_index - scan_log[i].pe_d >= 1
           /\ atm_index + scan_log[i].ce_d <= Len(all_strikes)
           /\ scan_log[i].ce_d \in scan_log[i].label[1]..scan_log[i].label[2]
           /\ scan_log[i].pe_d \in scan_log[i].label[1]..scan_log[i].label[2]

\* five strikes with the money second, distances 0 to 4 asked for: the scan
\* evaluates the calls up to the last strike with the puts down to the first
C35_Witness ==
    /\ pc = "scan_done"
    /\ Len(all_strikes) = 5
    /\ atm_index = 2
    /\ Len(scan_log) = 9
    /\ scan_log[1].label = <<0, 4>>
    /\ scan_log[9].ce_d = 3
    /\ scan_log[9].pe_d = 1

-----------------------------------------------------------------------------
(* What every selected pair and every snapshot satisfies                   *)

\* the properties of a pair, given its bids, combined premium, strikes and
\* distances
WellFormedPair(call_bid, put_bid, combined, call_strike, put_strike,
               ce_dist, pe_dist, atm_strike) ==
    /\ combined = call_bid + put_bid
    /\ combined >= 2 * MIN_PREMIUM_USD
    /\ (combined * SL_COMBINED_MULTIPLIER_X10) \div 10 > 0
    /\ call_strike > atm_strike
    /\ atm_strike > put_strike
    /\ ce_dist \in 10..15
    /\ pe_dist \in 10..15

\* C36: every selected strike pair, and every entry snapshot written from
\* it, has combined premium = call bid + put bid >= twice the minimum
\* premium (so the stop-loss level is positive), call strike > ATM strike >
\* put strike, and both distances in 10..15.
C36_SelectedPairWellFormed ==
    /\ best_combo # None =>
          WellFormedPair(best_combo[1].call_bid, best_combo[1].put_bid,
                         best_combo[1].combined_premium,
                         best_combo[1].call_strike, best_combo[1].put_strike,
                         best_combo[1].ce_dist, best_combo[1].pe_dist,
                         all_strikes[atm_index])
    /\ active_trade # None =>
          /\ best_combo # None
          /\ WellFormedPair(active_trade[1].entry_ce, active_trade[1].entry_pe,
                            active_trade[1].entry_combined,
                            active_trade[1].call_strike,
                            active_trade[1].put_strike,
                            active_trade[1].ce_dist, active_trade[1].pe_dist,
                            active_trade[1].atm_strike)

\* a snapshot written from a pair of the fallback scan whose two bids are
\* exactly the minimum premium
C36_Witness ==
    /\ active_trade # None
    /\ best_combo # None
    /\ best_combo[1].scan_label = "FALLBACK"
    /\ active_trade[1].entry_combined = 2 * MIN_PREMIUM_USD
    /\ active_trade[1].ce_dist \in 10..12

-----------------------------------------------------------------------------
(* The manual exit                                                         *)

\* the monitor returned with the manual exit
ManualExited ==
    /\ exit_data # None
    /\ exit_data[1].exit_reason = "Manual Exit"

\* the legs the last position list shows open
OpenLegs ==
    {i \in 1..2 : size_of(tick[1].pos_res.positions, BothLegs[i]) # 0}

\* the last poll came to the position test (before the exit time, both
\* quotes there) and the test did not pass: the fetch failed or a leg is open
PositionTestFailed ==
    /\ tick # None
    /\ ~time_exit_due(tick[1].now)
    /\ tick_quoted
    /\ ~tick[1].pos_res.success \/ OpenLegs # {}

\* what the three thresholds make of the last poll, in their order
ThresholdOutcome ==
    IF Holds("SOFT_SL") THEN "SL - Combined 2.5x"
    ELSE IF Holds("HARD_CAP") THEN "Hard Cap Rs.10,000"
    ELSE IF Holds("EARLY_EXIT") THEN "Early Exit - Premium decayed"
    ELSE "none"

\* C37: the manual exit fires only on a poll whose position list was fetched
\* and shows both legs flat (absent or size 0); on a poll with one leg flat
\* or with a failed position fetch it does not fire and the stop loss, the
\* hard cap and the early exit are evaluated on that poll; the manual exit
\* places no order.
C37_ManualExitOnlyWhenFlat ==
    /\ [](ManualExited =>
             /\ tick # None
             /\ tick[1].pos_res.success
             /\ OpenLegs = {})
    /\ [](PositionTestFailed =>
             /\ ~ManualExited
             /\ IF ThresholdOutcome = "none"
                THEN ~MonitorExited
                ELSE /\ MonitorExited
                     /\ exit_data[1].exit_reason = ThresholdOutcome)
    /\ [][(exit_data = None /\ ManualExited') =>
             /\ orders' = orders
             /\ positions' = positions
             /\ tick'[1].closes = <<>>]_vars

\* the manual exit on a position list the two legs are absent from, with
\* the two entry orders the only ones sent
C37_Witness ==
    /\ ManualExited
    /\ tick[1].pos_res.success
    /\ tick[1].pos_res.positions = <<>>
    /\ Len(orders) = 2
    /\ pc = "entry_tracker"

\* the call leg flat, the put leg open and the premium at the stop loss:
\* the monitor left with the stop loss
C37_WitnessOneLeg ==
    /\ PositionTestFailed
    /\ tick[1].pos_res.success
    /\ OpenLegs = {2}
    /\ MonitorExited
    /\ exit_data[1].exit_reason = "SL - Combined 2.5x"

\* both legs flat on the exchange, the position fetch failed and the premium
\* decayed: the monitor left with the early exit
C37_WitnessFetchFailed ==
    /\ PositionTestFailed
    /\ ~tick[1].pos_res.success
    /\ \A pid \in DOMAIN positions : positions[pid] = 0
    /\ MonitorExited
    /\ exit_data[1].exit_reason = "Early Exit - Premium decayed"

====
